---- MODULE Spec2Model ----
(***************************************************************************)
(* Orchestration engine of the autonomous software studio: the session     *)
(* state model, the workflow graph (nodes, conditional edges, interrupt    *)
(* after human_gate), the node handlers, the session store and the         *)
(* Orchestrator facade.  One session (thread) is followed.                 *)
(*                                                                         *)
(* The specifications share the variables:                               *)
(*   Spec       the Orchestrator facade driving the compiled graph, with   *)
(*              either the production WorkflowNodes or the deterministic   *)
(*              DummyWorkflowNodes of the end-to-end suite;                *)
(*   GraphSpec  the compiled graph with the production WorkflowNodes       *)
(*              driven through its own API (invoke / update_state /        *)
(*              invoke(None));                                             *)
(*   TransSpec  StateManager.transition_phase applied to bounded inputs;   *)
(*   CkptSpec   LocalSqliteSaver driven through put / put_writes /         *)
(*              get_tuple on one thread id;                                *)
(*   AdminSpec  Spec with delete_session and cleanup_expired_sessions;     *)
(*   ListSpec   LocalSqliteSaver.list on several thread ids and namespaces; *)
(*   ThreadsSpec  put, put_writes and delete_thread on several thread ids;  *)
(*   UsageSpec  two agent executions recording usage for one profile;      *)
(*   ConcSpec   two threads calling approve_and_continue /                 *)
(*              reject_and_iterate on the same suspended session;          *)
(*   RouteSpec  the two routers applied to bounded states;                 *)
(*   PortSpec   Spec with export_session and import_session;               *)
(*   ImmSpec    the StateManager functions on dicts and list objects;      *)
(*   MetricsSpec  _build_metrics over a store of many sessions;            *)
(*   CtxSpec    the context step of the node handlers of two sessions.     *)
(***************************************************************************)
EXTENDS Integers, Sequences, FiniteSets, TLC

VARIABLES
    nodes,                   \* Orchestrator._workflow_nodes: which node container the graph was built from
    use_sqlite_checkpointer, \* OrchestratorConfig.use_sqlite_checkpointer
    scenario,                \* DummyWorkflowNodes.scenario (ScenarioConfig)
    qa_attempts,             \* DummyWorkflowNodes._qa_attempts[session_id]
    store,                   \* the sessions row of the session (SessionStore)
    stale,                   \* the row's updated_at is older than session_ttl_days
    sqlite_ckpt,             \* latest checkpoint of the thread in checkpoints.db
    memory_ckpt,             \* latest checkpoint of the thread in the MemorySaver
    metrics,                 \* Orchestrator._metrics
    call,                    \* facade / graph call in progress for the session
    local_state,             \* local variable `state` of the facade call in progress
    graph_status,            \* position of the graph run of the call in progress
    steps,                   \* supersteps executed by the current invoke
    raise_cause,             \* why the current / last invoke raised
    outcome,                 \* how the last facade call ended
    lastNode,                \* history: node executed by the last superstep of the current call
    lastOutcome,             \* history: what the sub-agent did in that superstep
    phaseBefore,             \* history: current_phase handed to that node handler
    approvedSinceGate,       \* history: approve supplied APPROVE since human_gate last ran
    resumes,                 \* history: number of approve / reject calls accepted
    restarts,                \* history: number of orchestrator restarts
    qaFails,                 \* history: QA failures of the session so far
    qaFailsInRun,            \* history: QA failures in the current graph run
    helpVisits,              \* history: number of times the session was routed to human_help
    tp_in,                   \* transition_phase: input state's current_phase
    tp_to,                   \* transition_phase: to_phase argument
    tp_validate,             \* transition_phase: validate argument
    tp_out,                  \* transition_phase: result
    ck_checkpoints,          \* LocalSqliteSaver: rows of table checkpoints
    ck_writes,               \* LocalSqliteSaver: rows of table writes
    ck_now,                  \* LocalSqliteSaver: last reading of datetime.now()
    ck_seq,                  \* history: number of rows written to table writes so far
    ck_last,                 \* history: the checkpoint handed to the last put
    ck_fresh,                \* history: a new LocalSqliteSaver was opened after the last write
    ck_skipped,              \* history: put_writes has discarded a write
    th,                      \* per caller thread: position and locals of its approve / reject call
    okCalls,                 \* history: approve / reject calls that returned normally
    ckptHistory,             \* the checkpoints the checkpointer holds for the thread, as metadata
    usage_file,              \* data/agent_settings.json: one profile's limit and usage fields
    today,                   \* date.today(), as a day number
    ex,                      \* per agent execution: position and its manager's _settings entry
    recorded,                \* history: the usage the recordings of the current day add up to
    rt_in,                   \* the state handed to the routers
    rt_out,                  \* what route_after_human_gate and route_after_qa returned for it
    export_file,             \* the file export_session wrote
    im_other,                \* the row import_session saved under a newly generated id
    im_result,               \* history: the last import_session call, its payload and outcome
    sm_heap,                 \* the list objects of the process, by address
    sm_in,                   \* the state handed to a StateManager function (lists by address)
    sm_in0,                  \* history: the value of sm_in, lists included, before the call
    sm_out,                  \* the call made and what it returned
    mt_rows,                 \* the number of rows of the sessions table
    mt_out,                  \* the gauges of the last _build_metrics output
    cx_current,              \* ContextManager._current_context of the shared container
    cx_pc,                   \* where the node handler of each session stands
    cx_files                 \* the CLAUDE.md in each session's working directory

vars == <<nodes, use_sqlite_checkpointer, scenario, qa_attempts, store, stale,
          sqlite_ckpt, memory_ckpt, ckptHistory, metrics, call, local_state, graph_status,
          steps, raise_cause, outcome, lastNode, lastOutcome, phaseBefore,
          approvedSinceGate, resumes, restarts, qaFails, qaFailsInRun,
          helpVisits, tp_in, tp_to, tp_validate, tp_out,
          ck_checkpoints, ck_writes, ck_now, ck_seq, ck_last, ck_fresh, ck_skipped,
          th, okCalls, usage_file, today, ex, recorded,
          rt_in, rt_out, export_file, im_other, im_result,
          sm_heap, sm_in, sm_in0, sm_out, mt_rows, mt_out,
          cx_current, cx_pc, cx_files>>

facadeVars == <<nodes, use_sqlite_checkpointer, scenario, qa_attempts, store, stale,
                sqlite_ckpt, memory_ckpt, ckptHistory, metrics, call, local_state, graph_status,
                steps, raise_cause, outcome, lastNode, lastOutcome, phaseBefore,
                approvedSinceGate, resumes, restarts, qaFails, qaFailsInRun,
                helpVisits>>

tpVars == <<tp_in, tp_to, tp_validate, tp_out>>

ckVars == <<ck_checkpoints, ck_writes, ck_now, ck_seq, ck_last, ck_fresh, ck_skipped>>

concVars == <<th, okCalls>>

usVars == <<usage_file, today, ex, recorded>>

rtVars == <<rt_in, rt_out>>

imVars == <<export_file, im_other, im_result>>

smVars == <<sm_heap, sm_in, sm_in0, sm_out>>

mtVars == <<mt_rows, mt_out>>

cxVars == <<cx_current, cx_pc, cx_files>>

auxVars == <<rtVars, imVars, smVars, mtVars, cxVars>>

----------------------------------------------------------------------------
(* Bounds *)

\* OrchestratorConfig.max_iterations chosen for the session
ConfigMaxIterations == 2
\* number of approve / reject calls followed
MaxResumes == 3
\* number of orchestrator restarts followed
MaxRestarts == 1
\* largest ScenarioConfig.qa_failures_before_pass
MaxQaFailuresBeforePass == 1

(* Program constants *)

\* state.get("max_iterations", 5)
DefaultMaxIterations == 5
\* supersteps one invoke may run before the graph runtime raises GraphRecursionError
RecursionLimit == 25

----------------------------------------------------------------------------
(* Phases, statuses *)

Phases == {"pm", "arch", "human_gate", "eng", "qa", "human_help", "complete", "failed"}

VALID_TRANSITIONS ==
    [p \in Phases |->
        CASE p = "pm"         -> {"arch", "failed"}
          [] p = "arch"       -> {"human_gate", "failed"}
          [] p = "human_gate" -> {"eng", "arch", "pm", "failed"}
          [] p = "eng"        -> {"qa", "failed"}
          [] p = "qa"         -> {"complete", "eng", "human_help", "failed"}
          [] p = "human_help" -> {"eng", "arch", "pm", "complete", "failed"}
          [] p = "complete"   -> {}
          [] p = "failed"     -> {}]

\* wrappers.state.AgentState.validate_phase: the phases the wrapper state accepts
WrapperPhases == {"pm", "arch", "eng", "qa", "complete", "failed"}

Missions == {"", "Build a task app"}

\* StateManager.create_initial_state followed by update_state(session_id)
InitialState(mission) ==
    [user_mission    |-> mission,
     current_phase   |-> "pm",
     qa_passed       |-> FALSE,
     iteration_count |-> 0,
     max_iterations  |-> ConfigMaxIterations,
     decision        |-> "None",
     reject_phase    |-> "None",
     errors          |-> 0,
     path_prd        |-> FALSE,
     path_tech_spec  |-> FALSE,
     path_bug_report |-> FALSE,
     execution_log   |-> <<>>]

\* channel values of a thread that has no checkpoint: every key is missing and
\* each reader supplies its default (state.get(key, default))
EmptyValues ==
    [user_mission    |-> "",
     current_phase   |-> "pm",
     qa_passed       |-> FALSE,
     iteration_count |-> 0,
     max_iterations  |-> DefaultMaxIterations,
     decision        |-> "None",
     reject_phase    |-> "None",
     errors          |-> 0,
     path_prd        |-> FALSE,
     path_tech_spec  |-> FALSE,
     path_bug_report |-> FALSE,
     execution_log   |-> <<>>]

NoCheckpoint == [present |-> FALSE, values |-> EmptyValues, next |-> "END"]

NoRow == [present |-> FALSE, status |-> "pending", state |-> EmptyValues]

----------------------------------------------------------------------------
(* Node handlers of WorkflowNodes (workflow.py) and the sub-agents they call *)

Returned(state) == [raised |-> FALSE, state |-> state]

Raised(state) == [raised |-> TRUE, state |-> state]

\* _convert_to_wrapper_state builds the pydantic wrapper state: the constructor
\* raises ValidationError on an empty mission (min_length=1) or on a phase that
\* validate_phase does not accept
WrapperAccepts(state) ==
    /\ state.user_mission # ""
    /\ state.current_phase \in WrapperPhases

\* _convert_from_wrapper_state: phase, qa flag and errors are copied back; an
\* artifact path is written only when the wrapper state holds one
convert_from_wrapper_state(w, original) ==
    [original EXCEPT
        !.current_phase   = w.current_phase,
        !.qa_passed       = w.qa_passed,
        !.errors          = w.errors,
        !.path_prd        = IF w.path_prd THEN TRUE ELSE @,
        !.path_tech_spec  = IF w.path_tech_spec THEN TRUE ELSE @,
        !.path_bug_report = IF w.path_bug_report THEN TRUE ELSE @]

\* AgentState.mark_failed after add_error, as every agent's failure path calls it:
\* state.add_error(msg).mark_failed(msg) appends the message twice
mark_failed(w) == [w EXCEPT !.errors = @ + 2, !.current_phase = "failed"]

\* PMAgent.execute, when it returns
PMAgent_execute(w, oc) ==
    IF oc = "ok"
    THEN [w EXCEPT !.path_prd = TRUE, !.current_phase = "arch"]
    ELSE mark_failed(w)

\* ArchitectAgent.execute, when it returns
ArchitectAgent_execute(w, oc) ==
    IF oc = "ok"
    THEN [w EXCEPT !.path_tech_spec = TRUE, !.current_phase = "eng"]
    ELSE mark_failed(w)

\* EngineerAgent.execute, when it returns
EngineerAgent_execute(w, oc) ==
    IF oc = "ok"
    THEN [w EXCEPT !.current_phase = "qa"]
    ELSE mark_failed(w)

\* QAAgent.execute, when it returns: the subprocess result is not inspected,
\* only the parsed test summary decides
QAAgent_execute(w, oc) ==
    IF oc = "pass"
    THEN [w EXCEPT !.qa_passed = TRUE, !.path_bug_report = FALSE,
                   !.current_phase = "complete"]
    ELSE [w EXCEPT !.qa_passed = FALSE, !.path_bug_report = TRUE]

\* the except branch shared by the four agent nodes
NodeExcept(state) ==
    [state EXCEPT !.current_phase = "failed", !.errors = @ + 1]

pm_node(state, oc) ==
    IF ~WrapperAccepts(state) THEN Raised(state)
    ELSE IF oc = "raise" THEN Returned(NodeExcept(state))
    ELSE Returned([convert_from_wrapper_state(PMAgent_execute(state, oc), state)
                      EXCEPT !.current_phase = "arch"])

\* variant: the handler does not advance the phase to human_gate
architect_node_keeps_phase(state, oc) ==
    IF ~WrapperAccepts(state) THEN Raised(state)
    ELSE IF oc = "raise" THEN Returned(NodeExcept(state))
    ELSE Returned([convert_from_wrapper_state(ArchitectAgent_execute(state, oc), state)
                      EXCEPT !.current_phase = state.current_phase])

architect_node(state, oc) ==
    IF ~WrapperAccepts(state) THEN Raised(state)
    ELSE IF oc = "raise" THEN Returned(NodeExcept(state))
    ELSE Returned([convert_from_wrapper_state(ArchitectAgent_execute(state, oc), state)
                      EXCEPT !.current_phase = "human_gate"])

human_gate_node(state) == Returned(state)

engineer_node(state, oc) ==
    IF ~WrapperAccepts(state) THEN Raised(state)
    ELSE IF oc = "raise" THEN Returned(NodeExcept(state))
    ELSE Returned([convert_from_wrapper_state(EngineerAgent_execute(state, oc), state)
                      EXCEPT !.current_phase = "qa"])

qa_node(state, oc) ==
    IF ~WrapperAccepts(state) THEN Raised(state)
    ELSE IF oc = "raise"
         THEN Returned([NodeExcept(state) EXCEPT !.qa_passed = FALSE])
         ELSE Returned(convert_from_wrapper_state(QAAgent_execute(state, oc), state))

human_help_node(state) == Returned(state)

\* what the sub-agent of a WorkflowNodes handler can do on a given state:
\*   ok / pass / fail     the agent returns normally
\*   subprocess_failed    the CLI exits non-zero or times out (ExecutionResult.success false)
\*   artifact_missing     validate_required_artifacts fails before any subprocess
\*   raise                the agent raises (AgentError and the like)
AgentOutcomes(node, state) ==
    CASE node = "pm"        -> {"ok", "subprocess_failed", "raise"}
      [] node = "architect" -> IF state.path_prd
                               THEN {"ok", "subprocess_failed", "raise"}
                               ELSE {"artifact_missing"}
      [] node = "engineer"  -> IF state.path_tech_spec
                               THEN {"ok", "subprocess_failed", "raise"}
                               ELSE {"artifact_missing"}
      [] node = "qa"        -> {"pass", "fail", "raise"}
      [] OTHER              -> {"none"}

WorkflowNodes_run(node, state, oc) ==
    CASE node = "pm"         -> pm_node(state, oc)
      [] node = "architect"  -> architect_node(state, oc)
      [] node = "human_gate" -> human_gate_node(state)
      [] node = "engineer"   -> engineer_node(state, oc)
      [] node = "qa"         -> qa_node(state, oc)
      [] node = "human_help" -> human_help_node(state)

----------------------------------------------------------------------------
(* DummyWorkflowNodes (tests/e2e/test_full_pipeline.py) *)

\* StateManager.increment_iteration
increment_iteration(state) == [state EXCEPT !.iteration_count = @ + 1]

\* StateManager.log_execution: a record of the agent is appended to a copy of
\* the execution log, and the result's error, when it has one, to the errors
log_execution(state, agent, error) ==
    [state EXCEPT !.execution_log = Append(@, agent),
                  !.errors = IF error THEN @ + 1 ELSE @]

Dummy_pm_node(state) ==
    log_execution([state EXCEPT !.path_prd = TRUE, !.current_phase = "arch"],
                  "pm", FALSE)

Dummy_architect_node(state) ==
    log_execution([state EXCEPT !.path_tech_spec = TRUE, !.current_phase = "human_gate",
                                !.decision = "None", !.reject_phase = "None"],
                  "architect", FALSE)

Dummy_engineer_node(state) ==
    log_execution([state EXCEPT !.current_phase = "qa"], "engineer", FALSE)

\* the failing branch logs the execution with error "QA failed"
Dummy_qa_node(state, oc) ==
    IF oc = "fail"
    THEN log_execution(increment_iteration([state EXCEPT !.qa_passed = FALSE,
                                                         !.path_bug_report = TRUE]),
                       "qa", TRUE)
    ELSE log_execution([state EXCEPT !.qa_passed = TRUE, !.current_phase = "complete"],
                       "qa", FALSE)

\* logged with error "Max iterations reached"
Dummy_human_help_node(state) ==
    log_execution([state EXCEPT !.current_phase = "human_help", !.qa_passed = FALSE],
                  "human_help", TRUE)

\* the outcome of the attempt-th QA run under a ScenarioConfig
DummyQaOutcome(sc, attempt) ==
    IF sc.always_fail \/ attempt <= sc.qa_failures_before_pass THEN "fail" ELSE "pass"

DummyWorkflowNodes_run(node, state, oc) ==
    CASE node = "pm"         -> Returned(Dummy_pm_node(state))
      [] node = "architect"  -> Returned(Dummy_architect_node(state))
      [] node = "human_gate" -> Returned(state)
      [] node = "engineer"   -> Returned(Dummy_engineer_node(state))
      [] node = "qa"         -> Returned(Dummy_qa_node(state, oc))
      [] node = "human_help" -> Returned(Dummy_human_help_node(state))

----------------------------------------------------------------------------
(* The workflow graph (build_workflow) *)

Nodes == {"pm", "architect", "human_gate", "engineer", "qa", "human_help"}

AgentNodes == {"pm", "architect", "engineer", "qa"}

route_after_human_gate_as_given(state) ==
    IF state.decision = "APPROVE" THEN "engineer"
    ELSE IF state.decision = "REJECT"
         THEN IF state.reject_phase \in {"pm", "architect"} THEN state.reject_phase
              ELSE "human_gate"
         ELSE "human_gate"

route_after_human_gate(state) ==
    IF state.decision = "APPROVE" THEN "engineer"
    ELSE IF state.decision = "REJECT"
         THEN IF state.reject_phase = "pm" THEN "pm" ELSE "architect"
         ELSE "human_gate"

route_after_qa_budget_first(state) ==
    IF state.iteration_count >= state.max_iterations THEN "human_help"
    ELSE IF state.qa_passed THEN "end"
    ELSE "engineer"

route_after_qa(state) ==
    IF state.qa_passed THEN "end"
    ELSE IF state.iteration_count < state.max_iterations THEN "engineer"
    ELSE "human_help"

\* the edges added by build_workflow: the node that runs after `node` has
\* returned `state`
Successor(node, state) ==
    CASE node = "pm"         -> "architect"
      [] node = "architect"  -> "human_gate"
      [] node = "human_gate" -> route_after_human_gate(state)
      [] node = "engineer"   -> "qa"
      [] node = "qa"         -> LET r == route_after_qa(state)
                                IN IF r = "end" THEN "END" ELSE r
      [] node = "human_help" -> "END"

\* variant: the graph is compiled without an interrupt point
InterruptAfter_none == {}

\* graph.compile(interrupt_after=["human_gate"])
InterruptAfter == {"human_gate"}

----------------------------------------------------------------------------
(* Session store (orchestrator.py, SessionStore) *)

\* variant: only human_gate is an awaiting phase
_determine_status_gate_only(state) ==
    IF state.current_phase = "complete" THEN "completed"
    ELSE IF state.current_phase = "failed" THEN "failed"
    ELSE IF state.current_phase = "human_gate" THEN "awaiting_approval"
    ELSE "running"

_determine_status(state) ==
    IF state.current_phase = "complete" THEN "completed"
    ELSE IF state.current_phase = "failed" THEN "failed"
    ELSE IF state.current_phase \in {"human_gate", "human_help"} THEN "awaiting_approval"
    ELSE "running"

\* the row written by save_session (INSERT OR REPLACE, updated_at = now)
save_session(state) ==
    [present |-> TRUE, status |-> _determine_status(state), state |-> state]

\* variant: the age of the row is not looked at
_is_expired_any_age(row, isStale) ==
    row.status \notin {"completed", "expired"}

\* Orchestrator._is_expired on the stored row
_is_expired(row, isStale) ==
    /\ row.status \notin {"completed", "expired"}
    /\ isStale

\* the row after get_session_status: update_status(EXPIRED) when expired
RowAfterStatusRead(row, isStale) ==
    IF _is_expired(row, isStale) THEN [row EXCEPT !.status = "expired"] ELSE row

----------------------------------------------------------------------------
(* Checkpointer and graph runtime *)

\* variant: the graph is always compiled with a MemorySaver
CheckpointerIsDurable_memory == FALSE

\* Orchestrator.__init__: the checkpointer the graph is compiled with is the
\* SQLite saver when use_sqlite_checkpointer is set, a MemorySaver otherwise
CheckpointerIsDurable == use_sqlite_checkpointer

\* checkpointer.get_tuple(thread) with no checkpoint id: the latest checkpoint
get_tuple == IF CheckpointerIsDurable THEN sqlite_ckpt ELSE memory_ckpt

\* the columns save_session derives from a state, apart from the status
Metadata(state) ==
    [current_phase |-> state.current_phase, iteration_count |-> state.iteration_count,
     qa_passed |-> state.qa_passed]

\* checkpointer.put(thread, checkpoint)
Put(ck) ==
    /\ IF CheckpointerIsDurable
       THEN sqlite_ckpt' = ck /\ UNCHANGED memory_ckpt
       ELSE memory_ckpt' = ck /\ UNCHANGED sqlite_ckpt
    /\ ckptHistory' = ckptHistory \cup {Metadata(ck.values)}

\* graph.update_state(cfg, {decision, reject_phase}, as_node="human_gate"): the
\* patch is merged into the latest checkpoint's values (an empty state when the
\* thread has none) and the writers of human_gate, its conditional edge
\* included, run on the merged values and decide the next node
update_state(ck, decision, reject_phase) ==
    LET base   == IF ck.present THEN ck.values ELSE EmptyValues
        merged == [base EXCEPT !.decision = decision, !.reject_phase = reject_phase]
    IN [present |-> TRUE, values |-> merged, next |-> route_after_human_gate(merged)]

RunNode(node, state, oc) ==
    IF nodes = "WorkflowNodes"
    THEN WorkflowNodes_run(node, state, oc)
    ELSE DummyWorkflowNodes_run(node, state, oc)

Outcomes(node, state) ==
    IF nodes = "WorkflowNodes"
    THEN AgentOutcomes(node, state)
    ELSE IF node = "qa" THEN {DummyQaOutcome(scenario, qa_attempts + 1)}
    ELSE IF node \in AgentNodes THEN {"ok"} ELSE {"none"}

Running == call # "idle" /\ graph_status = "running"

\* one superstep of graph.invoke: the next node runs on the checkpointed values;
\* the returned state and the successor chosen by the edges are checkpointed;
\* the run suspends after a node listed in interrupt_after and ends at END.
\* A handler that raises leaves the checkpoint as it was and ends the invoke
\* with the exception.
GraphStep ==
    /\ Running
    /\ steps < RecursionLimit
    /\ get_tuple.next \in Nodes
    /\ LET node  == get_tuple.next
           state == get_tuple.values
       IN \E oc \in Outcomes(node, state) :
            LET r   == RunNode(node, state, oc)
                nxt == Successor(node, r.state)
            IN /\ lastNode' = node
               /\ lastOutcome' = oc
               /\ phaseBefore' = state.current_phase
               /\ steps' = steps + 1
               /\ IF r.raised
                  THEN /\ graph_status' = "raised"
                       /\ raise_cause' = "node"
                       /\ UNCHANGED <<sqlite_ckpt, memory_ckpt, ckptHistory, approvedSinceGate,
                                      qa_attempts, qaFails, qaFailsInRun, helpVisits>>
                  ELSE /\ Put([present |-> TRUE, values |-> r.state, next |-> nxt])
                       /\ graph_status' = IF node \in InterruptAfter THEN "interrupted"
                                          ELSE IF nxt = "END" THEN "done"
                                          ELSE "running"
                       /\ raise_cause' = raise_cause
                       /\ approvedSinceGate' = IF node = "human_gate" THEN FALSE
                                               ELSE approvedSinceGate
                       /\ qa_attempts' = IF node = "qa" /\ nodes = "DummyWorkflowNodes"
                                         THEN qa_attempts + 1 ELSE qa_attempts
                       /\ qaFails' = IF node = "qa" /\ oc = "fail"
                                     THEN qaFails + 1 ELSE qaFails
                       /\ qaFailsInRun' = IF node = "qa" /\ oc = "fail"
                                          THEN qaFailsInRun + 1 ELSE qaFailsInRun
                       /\ helpVisits' = IF node = "human_help"
                                        THEN helpVisits + 1 ELSE helpVisits
    /\ UNCHANGED <<nodes, use_sqlite_checkpointer, scenario, store, stale, metrics,
                   call, local_state, outcome, resumes, restarts>>
    /\ UNCHANGED <<tpVars, ckVars, concVars, usVars, auxVars>>

\* the runtime stops an invoke that still has a node to run after
\* RecursionLimit supersteps with GraphRecursionError
OutOfSteps ==
    /\ Running
    /\ steps = RecursionLimit
    /\ graph_status' = "raised"
    /\ raise_cause' = "recursion"
    /\ UNCHANGED <<nodes, use_sqlite_checkpointer, scenario, qa_attempts, store, stale,
                   sqlite_ckpt, memory_ckpt, ckptHistory, metrics, call, local_state, steps,
                   outcome, lastNode, lastOutcome, phaseBefore, approvedSinceGate,
                   resumes, restarts, qaFails, qaFailsInRun, helpVisits>>
    /\ UNCHANGED <<tpVars, ckVars, concVars, usVars, auxVars>>

----------------------------------------------------------------------------
(* Orchestrator facade (orchestrator.py) *)

Idle == call = "idle"

BeginRun(c) ==
    /\ call' = c
    /\ graph_status' = "running"
    /\ steps' = 0
    /\ raise_cause' = "none"
    /\ lastNode' = "none"
    /\ lastOutcome' = "none"
    /\ phaseBefore' = "none"
    /\ qaFailsInRun' = 0

\* start_new_session up to the first superstep: the initial state is saved and
\* graph.invoke(state) checkpoints its input with pm as the node to run
StartNewSession(mission) ==
    /\ Idle
    /\ store = NoRow
    /\ ~get_tuple.present
    /\ LET state == InitialState(mission)
       IN /\ store' = save_session(state)
          /\ local_state' = state
          /\ Put([present |-> TRUE, values |-> state, next |-> "pm"])
    /\ stale' = FALSE
    /\ BeginRun("start")
    /\ UNCHANGED <<nodes, use_sqlite_checkpointer, scenario, qa_attempts, metrics,
                   outcome, approvedSinceGate, resumes, restarts, qaFails, helpVisits>>
    /\ UNCHANGED <<tpVars, ckVars, concVars, usVars, auxVars>>

\* get_session_status as a call of its own
GetSessionStatus ==
    /\ Idle
    /\ store.present
    /\ _is_expired(store, stale)
    /\ store' = RowAfterStatusRead(store, stale)
    /\ stale' = FALSE
    /\ UNCHANGED <<nodes, use_sqlite_checkpointer, scenario, qa_attempts,
                   sqlite_ckpt, memory_ckpt, ckptHistory, metrics, call, local_state, graph_status,
                   steps, raise_cause, outcome, lastNode, lastOutcome, phaseBefore,
                   approvedSinceGate, resumes, restarts, qaFails, qaFailsInRun,
                   helpVisits>>
    /\ UNCHANGED <<tpVars, ckVars, concVars, usVars, auxVars>>

\* approve_and_continue / reject_and_iterate on a session that is not awaiting
\* approval: InvalidOperationError after the status read
ResumeRefused ==
    /\ Idle
    /\ store.present
    /\ RowAfterStatusRead(store, stale).status # "awaiting_approval"
    /\ store' = RowAfterStatusRead(store, stale)
    /\ stale' = IF _is_expired(store, stale) THEN FALSE ELSE stale
    /\ outcome' = "InvalidOperationError"
    /\ UNCHANGED <<nodes, use_sqlite_checkpointer, scenario, qa_attempts,
                   sqlite_ckpt, memory_ckpt, ckptHistory, metrics, call, local_state, graph_status,
                   steps, raise_cause, lastNode, lastOutcome, phaseBefore,
                   approvedSinceGate, resumes, restarts, qaFails, qaFailsInRun,
                   helpVisits>>
    /\ UNCHANGED <<tpVars, ckVars, concVars, usVars, auxVars>>

\* approve_and_continue up to the first superstep of invoke(None)
ApproveAndContinue ==
    /\ Idle
    /\ store.present
    /\ resumes < MaxResumes
    /\ RowAfterStatusRead(store, stale).status = "awaiting_approval"
    /\ local_state' = store.state
    /\ metrics' = [metrics EXCEPT !.approvals = @ + 1]
    /\ Put(update_state(get_tuple, "APPROVE", "None"))
    /\ BeginRun("approve")
    /\ approvedSinceGate' = TRUE
    /\ resumes' = resumes + 1
    /\ UNCHANGED <<nodes, use_sqlite_checkpointer, scenario, qa_attempts, store, stale,
                   outcome, restarts, qaFails, helpVisits>>
    /\ UNCHANGED <<tpVars, ckVars, concVars, usVars, auxVars>>

RejectTargets == {"pm", "architect", "qa"}

\* reject_and_iterate up to the first superstep of invoke(None)
RejectAndIterate(reject_to) ==
    /\ Idle
    /\ store.present
    /\ resumes < MaxResumes
    /\ RowAfterStatusRead(store, stale).status = "awaiting_approval"
    /\ local_state' = store.state
    /\ metrics' = [metrics EXCEPT !.rejections = @ + 1]
    /\ Put(update_state(get_tuple, "REJECT", reject_to))
    /\ BeginRun("reject")
    /\ resumes' = resumes + 1
    /\ UNCHANGED <<nodes, use_sqlite_checkpointer, scenario, qa_attempts, store, stale,
                   outcome, approvedSinceGate, restarts, qaFails, helpVisits>>
    /\ UNCHANGED <<tpVars, ckVars, concVars, usVars, auxVars>>

\* graph.invoke returned (suspended after human_gate, or END): the result is
\* saved and the call returns
InvokeReturns ==
    /\ call \in {"start", "approve", "reject"}
    /\ graph_status \in {"interrupted", "done"}
    /\ store' = save_session(get_tuple.values)
    /\ stale' = FALSE
    /\ call' = "idle"
    /\ graph_status' = "idle"
    /\ outcome' = "returned"
    /\ UNCHANGED <<nodes, use_sqlite_checkpointer, scenario, qa_attempts,
                   sqlite_ckpt, memory_ckpt, ckptHistory, metrics, local_state, steps, raise_cause,
                   lastNode, lastOutcome, phaseBefore, approvedSinceGate, resumes,
                   restarts, qaFails, qaFailsInRun, helpVisits>>
    /\ UNCHANGED <<tpVars, ckVars, concVars, usVars, auxVars>>

\* variant: the except branch records only the new error
error_state_replaces(c, state) ==
    [state EXCEPT !.current_phase = "failed", !.errors = 1]

\* the state the except branch of a facade call saves: the call's local state
\* marked failed; start_new_session replaces the errors list by the one error,
\* approve and reject append to it
error_state(c, state) ==
    [state EXCEPT !.current_phase = "failed",
                  !.errors = IF c = "start" THEN 1 ELSE @ + 1]

\* graph.invoke raised: the except branch saves the failed state and raises
\* OrchestratorError
InvokeRaises ==
    /\ call \in {"start", "approve", "reject"}
    /\ graph_status = "raised"
    /\ store' = save_session(error_state(call, local_state))
    /\ stale' = FALSE
    /\ call' = "idle"
    /\ graph_status' = "idle"
    /\ outcome' = "OrchestratorError"
    /\ UNCHANGED <<nodes, use_sqlite_checkpointer, scenario, qa_attempts,
                   sqlite_ckpt, memory_ckpt, ckptHistory, metrics, local_state, steps, raise_cause,
                   lastNode, lastOutcome, phaseBefore, approvedSinceGate, resumes,
                   restarts, qaFails, qaFailsInRun, helpVisits>>
    /\ UNCHANGED <<tpVars, ckVars, concVars, usVars, auxVars>>

\* the row's updated_at falls behind the TTL cutoff
TimePasses ==
    /\ store.present
    /\ ~stale
    /\ stale' = TRUE
    /\ UNCHANGED <<nodes, use_sqlite_checkpointer, scenario, qa_attempts, store,
                   sqlite_ckpt, memory_ckpt, ckptHistory, metrics, call, local_state, graph_status,
                   steps, raise_cause, outcome, lastNode, lastOutcome, phaseBefore,
                   approvedSinceGate, resumes, restarts, qaFails, qaFailsInRun,
                   helpVisits>>
    /\ UNCHANGED <<tpVars, ckVars, concVars, usVars, auxVars>>

\* the orchestrator is discarded and Orchestrator.__init__ runs again over the
\* same db_path: the metrics, the MemorySaver and the node container are new
\* objects, the two database files are the ones the old orchestrator left.
\* Followed once the session exists.
Restart ==
    /\ Idle
    /\ store.present
    /\ restarts < MaxRestarts
    /\ metrics' = [approvals |-> 0, rejections |-> 0]
    /\ memory_ckpt' = NoCheckpoint
    /\ ckptHistory' = IF CheckpointerIsDurable THEN ckptHistory ELSE {}
    /\ qa_attempts' = 0
    /\ restarts' = restarts + 1
    /\ UNCHANGED <<nodes, use_sqlite_checkpointer, scenario, store, stale,
                   sqlite_ckpt, call, local_state, graph_status,
                   steps, raise_cause, outcome, lastNode, lastOutcome, phaseBefore,
                   approvedSinceGate, resumes, qaFails, qaFailsInRun, helpVisits>>
    /\ UNCHANGED <<tpVars, ckVars, concVars, usVars, auxVars>>

Scenarios == [qa_failures_before_pass : 0..MaxQaFailuresBeforePass, always_fail : BOOLEAN]

NoScenario == [qa_failures_before_pass |-> 0, always_fail |-> FALSE]

TpIdle ==
    /\ tp_in = "pm"
    /\ tp_to = "pm"
    /\ tp_validate = TRUE
    /\ tp_out = [called |-> FALSE, raised |-> FALSE, before |-> "pm", phase |-> "pm"]

\* the checkpoint database as _init_db leaves a new file: both tables empty
CkIdle ==
    /\ ck_checkpoints = {}
    /\ ck_writes = {}
    /\ ck_now = 0
    /\ ck_seq = 0
    /\ ck_last = [present |-> FALSE, id |-> "c1", payload |-> "p1"]
    /\ ck_fresh = FALSE
    /\ ck_skipped = FALSE

Executions == {"E1", "E2"}

\* a profile's entry of the settings file as _default_agent writes it
DefaultAgent == [daily_limit |-> 0, hard_limit |-> FALSE, usage_today |-> 0,
                 usage_reset_at |-> 0]

\* an agent execution that has not constructed its AgentSettingsManager
NoExecution == [pc |-> "idle", agent |-> DefaultAgent]

UsIdle ==
    /\ usage_file = DefaultAgent
    /\ today = 0
    /\ ex = [e \in Executions |-> NoExecution]
    /\ recorded = 0

\* no router has been called
RtIdle ==
    /\ rt_in = EmptyValues
    /\ rt_out = [gate |-> "none", qa |-> "none"]

\* no export file; `of` is history: the state the file was exported from
NoFile == [present |-> FALSE, status |-> "none", state |-> EmptyValues,
           of |-> EmptyValues]

NoPayload == [has_state |-> FALSE, has_mission |-> FALSE, session_id |-> "None",
              state |-> EmptyValues]

\* nothing was exported or imported
ImIdle ==
    /\ export_file = NoFile
    /\ im_other = NoRow
    /\ im_result = [n |-> 0, outcome |-> "none", id |-> "none", payload |-> NoPayload]

\* the fields of the state that hold lists
ListKeys == {"errors", "architectural_feedback", "prd_feedback", "execution_log"}

\* a state as the StateManager functions see it: a dict whose list fields
\* refer to list objects (addresses of sm_heap)
NoDict ==
    [current_phase |-> "pm", iteration_count |-> 0, timestamp |-> 0,
     errors |-> 1, architectural_feedback |-> 2, prd_feedback |-> 3,
     execution_log |-> 4]

\* the dict with every list written out
Deep(heap, d) == [k \in DOMAIN d |-> IF k \in ListKeys THEN heap[d[k]] ELSE d[k]]

NoReturn == [fn |-> "none", raised |-> FALSE, state |-> NoDict, mutated |-> FALSE]

\* no StateManager function was called
SmIdle ==
    /\ sm_heap = <<<<>>, <<>>, <<>>, <<>>>>
    /\ sm_in = NoDict
    /\ sm_in0 = Deep(sm_heap, sm_in)
    /\ sm_out = NoReturn

NoMetrics == [built |-> FALSE, sessions_total |-> 0, by_status_sum |-> 0]

\* an empty sessions table, no metrics built
MtIdle ==
    /\ mt_rows = 0
    /\ mt_out = NoMetrics

\* two sessions run through one WorkflowNodes container
Sessions == {"A", "B"}

NoContext == [phase_name |-> "None", mission |-> "None"]

NoClaudeMd == [written |-> FALSE, phase_name |-> "None", mission |-> "None",
               node |-> "None"]

\* a new ContextManager, no handler running, no CLAUDE.md written
CxIdle ==
    /\ cx_current = NoContext
    /\ cx_pc = [s \in Sessions |-> [at |-> "idle", node |-> "None"]]
    /\ cx_files = [s \in Sessions |-> NoClaudeMd]

AuxIdle ==
    /\ RtIdle
    /\ ImIdle
    /\ SmIdle
    /\ MtIdle
    /\ CxIdle

Threads == {"T1", "T2"}

\* a caller thread that has not entered the facade
NoCall ==
    [pc |-> "idle", kind |-> "approve", reject_to |-> "None", tmp |-> 0,
     state |-> EmptyValues, loop |-> NoCheckpoint]

ConcIdle ==
    /\ th = [t \in Threads |-> NoCall]
    /\ okCalls = 0

\* the facade right after construction
FacadeIdle ==
    /\ qa_attempts = 0
    /\ store = NoRow
    /\ stale = FALSE
    /\ sqlite_ckpt = NoCheckpoint
    /\ memory_ckpt = NoCheckpoint
    /\ ckptHistory = {}
    /\ metrics = [approvals |-> 0, rejections |-> 0]
    /\ call = "idle"
    /\ local_state = EmptyValues
    /\ graph_status = "idle"
    /\ steps = 0
    /\ raise_cause = "none"
    /\ outcome = "none"
    /\ lastNode = "none"
    /\ lastOutcome = "none"
    /\ phaseBefore = "none"
    /\ approvedSinceGate = FALSE
    /\ resumes = 0
    /\ restarts = 0
    /\ qaFails = 0
    /\ qaFailsInRun = 0
    /\ helpVisits = 0

InitCommon ==
    /\ CkIdle
    /\ ConcIdle
    /\ UsIdle
    /\ AuxIdle
    /\ FacadeIdle

Init ==
    /\ nodes \in {"WorkflowNodes", "DummyWorkflowNodes"}
    /\ use_sqlite_checkpointer \in BOOLEAN
    /\ scenario \in IF nodes = "WorkflowNodes" THEN {NoScenario} ELSE Scenarios
    /\ InitCommon
    /\ TpIdle

Next ==
    \/ \E mission \in Missions : StartNewSession(mission)
    \/ GraphStep
    \/ InvokeReturns
    \/ InvokeRaises
    \/ ApproveAndContinue
    \/ \E reject_to \in RejectTargets : RejectAndIterate(reject_to)
    \/ ResumeRefused
    \/ GetSessionStatus
    \/ TimePasses
    \/ Restart

Spec == Init /\ [][Next]_vars

----------------------------------------------------------------------------
(* The facade's maintenance operations (orchestrator.py) *)

\* no row for a session id that had one: the id is not issued again
GoneRow == [present |-> FALSE, status |-> "gone", state |-> EmptyValues]

\* Orchestrator.delete_session: SessionStore.delete_session only; the result
\* is True when a row was deleted
DeleteSession ==
    /\ Idle
    /\ store # NoRow
    /\ store' = GoneRow
    /\ outcome' = IF store.present THEN "deleted" ELSE "not_deleted"
    /\ UNCHANGED <<nodes, use_sqlite_checkpointer, scenario, qa_attempts, stale,
                   sqlite_ckpt, memory_ckpt, ckptHistory, metrics, call, local_state, graph_status,
                   steps, raise_cause, lastNode, lastOutcome, phaseBefore,
                   approvedSinceGate, resumes, restarts, qaFails, qaFailsInRun,
                   helpVisits>>
    /\ UNCHANGED <<tpVars, ckVars, concVars, usVars, auxVars>>

\* SessionStore.cleanup_expired on the row: the UPDATE marks it EXPIRED when it
\* is older than the cutoff and neither COMPLETED nor EXPIRED (updated_at is
\* not touched), then the DELETE removes it when it is older than the cutoff
\* and EXPIRED
cleanup_expired(row, isStale) ==
    LET marked == IF isStale /\ row.status \notin {"completed", "expired"}
                  THEN [row EXCEPT !.status = "expired"] ELSE row
    IN IF isStale /\ marked.status = "expired" THEN GoneRow ELSE marked

\* Orchestrator.cleanup_expired_sessions; the result is the number of rows
\* deleted
CleanupExpiredSessions ==
    /\ Idle
    /\ store.present
    /\ store' = cleanup_expired(store, stale)
    /\ outcome' = IF store'.present THEN "cleanup_0" ELSE "cleanup_1"
    /\ UNCHANGED <<nodes, use_sqlite_checkpointer, scenario, qa_attempts, stale,
                   sqlite_ckpt, memory_ckpt, ckptHistory, metrics, call, local_state, graph_status,
                   steps, raise_cause, lastNode, lastOutcome, phaseBefore,
                   approvedSinceGate, resumes, restarts, qaFails, qaFailsInRun,
                   helpVisits>>
    /\ UNCHANGED <<tpVars, ckVars, concVars, usVars, auxVars>>

AdminNext ==
    \/ Next
    \/ DeleteSession
    \/ CleanupExpiredSessions

AdminSpec == Init /\ [][AdminNext]_vars

----------------------------------------------------------------------------
(* Usage accounting (agent_settings.py, base_agent.py) *)

MaxDay == 1
MaxLimit == 2
MaxUsage == 3

\* AgentSettingsManager._refresh_usage: a counter of another day restarts
_refresh_usage(agent) ==
    IF agent.usage_reset_at # today
    THEN [agent EXCEPT !.usage_today = 0, !.usage_reset_at = today]
    ELSE agent

\* variant: the cap only warns
UsageRaises_soft(agent, units) == FALSE

\* check_and_record_usage raises UsageLimitError on this entry
UsageRaises(agent, units) ==
    LET a == _refresh_usage(agent)
    IN a.daily_limit > 0 /\ a.usage_today + units > a.daily_limit /\ a.hard_limit

\* the entry check_and_record_usage writes when it does not raise
check_and_record_usage(agent, units) ==
    LET a == _refresh_usage(agent)
    IN [a EXCEPT !.usage_today = @ + units]

\* the usage the file records for the current day
UsageToday == IF usage_file.usage_reset_at = today THEN usage_file.usage_today ELSE 0

\* BaseAgent._execute_claude constructs AgentSettingsManager(): _load_or_init
\* reads the settings file into the manager's _settings
ExecutionLoads(e) ==
    /\ ex[e].pc = "idle"
    /\ ex' = [ex EXCEPT ![e] = [pc |-> "loaded", agent |-> usage_file]]
    /\ UNCHANGED <<usage_file, today, recorded>>
    /\ UNCHANGED <<facadeVars, tpVars, ckVars, concVars, auxVars>>

\* check_and_record_usage(profile, units=1) on the manager's _settings: raise,
\* or add the unit and _write_settings the manager's data over the file
ExecutionRecords(e) ==
    /\ ex[e].pc = "loaded"
    /\ ex[e].agent.usage_today < MaxUsage
    /\ IF UsageRaises(ex[e].agent, 1)
       THEN /\ ex' = [ex EXCEPT ![e].pc = "raised"]
            /\ UNCHANGED <<usage_file, recorded>>
       ELSE /\ usage_file' = check_and_record_usage(ex[e].agent, 1)
            /\ ex' = [ex EXCEPT ![e] = [pc |-> "recorded", agent |-> usage_file']]
            /\ recorded' = recorded + 1
    /\ UNCHANGED today
    /\ UNCHANGED <<facadeVars, tpVars, ckVars, concVars, auxVars>>

\* _execute_claude goes on to execute_headless, or has raised AgentError
ExecutionEnds(e) ==
    /\ ex[e].pc \in {"recorded", "raised"}
    /\ ex' = [ex EXCEPT ![e] = NoExecution]
    /\ UNCHANGED <<usage_file, today, recorded>>
    /\ UNCHANGED <<facadeVars, tpVars, ckVars, concVars, auxVars>>

\* the calendar date changes
DayChanges ==
    /\ today < MaxDay
    /\ today' = today + 1
    /\ recorded' = 0
    /\ UNCHANGED <<usage_file, ex>>
    /\ UNCHANGED <<facadeVars, tpVars, ckVars, concVars, auxVars>>

UsageInit ==
    /\ nodes = "WorkflowNodes"
    /\ use_sqlite_checkpointer = TRUE
    /\ scenario = NoScenario
    /\ InitCommon
    /\ TpIdle

\* update_agent(profile, {daily_limit, hard_limit}) on the default settings
UsageConfigured ==
    /\ \A e \in Executions : ex[e].pc = "idle"
    /\ usage_file = DefaultAgent
    /\ today = 0
    /\ recorded = 0
    /\ \E limit \in 0..MaxLimit : \E hard \in BOOLEAN :
         usage_file' = [usage_file EXCEPT !.daily_limit = limit, !.hard_limit = hard]
    /\ UNCHANGED <<today, ex, recorded>>
    /\ UNCHANGED <<facadeVars, tpVars, ckVars, concVars, auxVars>>

UsageNext ==
    \/ UsageConfigured
    \/ DayChanges
    \/ \E e \in Executions :
         \/ ExecutionLoads(e)
         \/ ExecutionRecords(e)
         \/ ExecutionEnds(e)

UsageSpec == UsageInit /\ [][UsageNext]_vars

----------------------------------------------------------------------------
(* The compiled graph driven through its own API, production WorkflowNodes *)

\* graph.invoke(initial_state, cfg) on a new thread, up to the first superstep
GraphInvoke(mission) ==
    /\ Idle
    /\ ~get_tuple.present
    /\ LET state == InitialState(mission)
       IN /\ local_state' = state
          /\ Put([present |-> TRUE, values |-> state, next |-> "pm"])
    /\ BeginRun("invoke")
    /\ UNCHANGED <<nodes, use_sqlite_checkpointer, scenario, qa_attempts, store, stale,
                   metrics, outcome, approvedSinceGate, resumes, restarts, qaFails,
                   helpVisits>>
    /\ UNCHANGED <<tpVars, ckVars, concVars, usVars, auxVars>>

Decisions == {"APPROVE", "REJECT"}

\* graph.update_state(cfg, {decision, reject_phase}, as_node="human_gate") then
\* graph.invoke(None, cfg) on a thread suspended after human_gate, up to the
\* first superstep
GraphResume(decision, reject_phase) ==
    /\ Idle
    /\ get_tuple.present
    /\ outcome = "interrupted"
    /\ resumes < MaxResumes
    /\ local_state' = get_tuple.values
    /\ Put(update_state(get_tuple, decision, reject_phase))
    /\ BeginRun("resume")
    /\ approvedSinceGate' = (decision = "APPROVE")
    /\ resumes' = resumes + 1
    /\ UNCHANGED <<nodes, use_sqlite_checkpointer, scenario, qa_attempts, store, stale,
                   metrics, outcome, restarts, qaFails, helpVisits>>
    /\ UNCHANGED <<tpVars, ckVars, concVars, usVars, auxVars>>

\* graph.invoke returns to its caller (suspended or at END) or raises
GraphInvokeEnds ==
    /\ call \in {"invoke", "resume"}
    /\ graph_status \in {"interrupted", "done", "raised"}
    /\ outcome' = graph_status
    /\ call' = "idle"
    /\ graph_status' = "idle"
    /\ UNCHANGED <<nodes, use_sqlite_checkpointer, scenario, qa_attempts, store, stale,
                   sqlite_ckpt, memory_ckpt, ckptHistory, metrics, local_state, steps, raise_cause,
                   lastNode, lastOutcome, phaseBefore, approvedSinceGate, resumes,
                   restarts, qaFails, qaFailsInRun, helpVisits>>
    /\ UNCHANGED <<tpVars, ckVars, concVars, usVars, auxVars>>

GraphInit ==
    /\ nodes = "WorkflowNodes"
    /\ use_sqlite_checkpointer = FALSE
    /\ scenario = NoScenario
    /\ InitCommon
    /\ TpIdle

GraphNext ==
    \/ \E mission \in Missions : GraphInvoke(mission)
    \/ \E d \in Decisions : \E r \in {"None", "pm", "architect"} : GraphResume(d, r)
    \/ GraphStep
    \/ OutOfSteps
    \/ GraphInvokeEnds

GraphSpec == GraphInit /\ [][GraphNext]_vars

----------------------------------------------------------------------------
(* StateManager.transition_phase on bounded inputs (state.py) *)

\* the strings handed to transition_phase: the eight phases, a phase written in
\* upper case and a string that is no phase
PhaseInputs == Phases \cup {"ARCH", "bogus"}

\* str.lower on PhaseInputs
Lower(p) == IF p = "ARCH" THEN "arch" ELSE p

\* variant: only checks that the target is a known phase
validate_transition_known(from_phase, to_phase) ==
    Lower(to_phase) \in Phases

validate_transition(from_phase, to_phase) ==
    LET f == Lower(from_phase)
        t == Lower(to_phase)
    IN IF f \notin DOMAIN VALID_TRANSITIONS THEN FALSE
       ELSE t \in VALID_TRANSITIONS[f]

\* transition_phase(state, to_phase, validate): raises StateTransitionError
\* before anything is built, otherwise returns update_state's deep copy with
\* current_phase set; the input state is never written
transition_phase(from_phase, to_phase, validate) ==
    IF validate /\ ~validate_transition(from_phase, to_phase)
    THEN [called |-> TRUE, raised |-> TRUE, before |-> from_phase, phase |-> from_phase]
    ELSE [called |-> TRUE, raised |-> FALSE, before |-> from_phase, phase |-> to_phase]

TransitionPhase(to_phase, validate) ==
    /\ tp_to' = to_phase
    /\ tp_validate' = validate
    /\ tp_out' = transition_phase(tp_in, to_phase, validate)
    /\ tp_in' = tp_in
    /\ UNCHANGED <<facadeVars, ckVars, concVars, usVars, auxVars>>

\* the caller goes on with the state transition_phase returned
AdoptResult ==
    /\ tp_out.called
    /\ ~tp_out.raised
    /\ tp_in # tp_out.phase
    /\ tp_in' = tp_out.phase
    /\ tp_out' = [called |-> FALSE, raised |-> FALSE, before |-> tp_out.phase,
                  phase |-> tp_out.phase]
    /\ UNCHANGED <<tp_to, tp_validate>>
    /\ UNCHANGED <<facadeVars, ckVars, concVars, usVars, auxVars>>

TransInit ==
    /\ nodes = "WorkflowNodes"
    /\ use_sqlite_checkpointer = FALSE
    /\ scenario = NoScenario
    /\ InitCommon
    /\ tp_in \in PhaseInputs
    /\ tp_to = tp_in
    /\ tp_validate = TRUE
    /\ tp_out = [called |-> FALSE, raised |-> FALSE, before |-> tp_in, phase |-> tp_in]

TransNext ==
    \/ \E to_phase \in PhaseInputs : \E validate \in BOOLEAN :
           TransitionPhase(to_phase, validate)
    \/ AdoptResult

TransSpec == TransInit /\ [][TransNext]_vars

----------------------------------------------------------------------------
(* LocalSqliteSaver (sqlite_checkpointer.py) *)

\* number of put calls followed
MaxPuts == 2
\* number of rows put_writes may be asked to write in all
MaxWriteRows == 2

ThreadIds == {"s1", "s2"}

Namespaces == {"", "sub"}

CheckpointIds == {"c1", "c2"}

\* the order of checkpoint ids as strings
IdRank(id) == IF id = "c1" THEN 1 ELSE IF id = "c2" THEN 2 ELSE 3

Payloads == {"p1", "p2"}

MetadataKeys == {"source", "writer"}

\* checkpoint metadata: a value for each key
Metadatas == [MetadataKeys -> {"x", "y"}]

NoMetadata == [k \in MetadataKeys |-> "x"]

TaskIds == {"t1", "t2"}

Channels == {"a", "__error__"}

WriteValues == {"v1", "v2"}

\* the `writes` argument of put_writes: one or two (channel, value) pairs
WriteLists ==
    LET W == [channel : Channels, value : WriteValues]
    IN {<<w>> : w \in W} \cup {<<w1, w2>> : w1 \in W, w2 \in W}

\* config["configurable"] of a put_writes call
Config(thread_id, checkpoint_ns, checkpoint_id) ==
    [thread_id |-> thread_id, checkpoint_ns |-> checkpoint_ns,
     checkpoint_id |-> checkpoint_id]

\* the rows of a table that belong to a thread id and namespace
RowsOf(table, thread_id, checkpoint_ns) ==
    {r \in table : r.thread_id = thread_id /\ r.checkpoint_ns = checkpoint_ns}

\* WRITES_IDX_MAP.get(channel, idx): the special channels have fixed negative
\* indexes, any other channel takes its position in the list (counted from 0)
WriteIdx(channel, idx) == IF channel = "__error__" THEN -1 ELSE idx

\* variant: every row is written with INSERT OR REPLACE, existing or not
RECURSIVE PutWritesFrom_replace(_, _, _, _, _, _)
PutWritesFrom_replace(rows, n, config, task_id, writes, i) ==
    IF i > Len(writes) THEN [rows |-> rows, n |-> n]
    ELSE LET w         == writes[i]
             write_idx == WriteIdx(w.channel, i - 1)
             same      == {r \in RowsOf(rows, config.thread_id, config.checkpoint_ns) :
                             /\ r.checkpoint_id = config.checkpoint_id
                             /\ r.task_id = task_id
                             /\ r.write_idx = write_idx}
         IN PutWritesFrom_replace(
                   (rows \ same) \cup
                     {[thread_id |-> config.thread_id,
                       checkpoint_ns |-> config.checkpoint_ns,
                       checkpoint_id |-> config.checkpoint_id, task_id |-> task_id,
                       write_idx |-> write_idx, channel |-> w.channel,
                       value |-> w.value, seq |-> n + 1]},
                   n + 1, config, task_id, writes, i + 1)

\* the loop of put_writes from position i on: a row whose index is not negative
\* and whose key (thread, namespace, checkpoint, task, index) exists is skipped,
\* any other is written with INSERT OR REPLACE; n counts the rows written
RECURSIVE PutWritesFrom(_, _, _, _, _, _)
PutWritesFrom(rows, n, config, task_id, writes, i) ==
    IF i > Len(writes) THEN [rows |-> rows, n |-> n]
    ELSE LET w         == writes[i]
             write_idx == WriteIdx(w.channel, i - 1)
             same      == {r \in RowsOf(rows, config.thread_id, config.checkpoint_ns) :
                             /\ r.checkpoint_id = config.checkpoint_id
                             /\ r.task_id = task_id
                             /\ r.write_idx = write_idx}
         IN IF write_idx >= 0 /\ same # {}
            THEN PutWritesFrom(rows, n, config, task_id, writes, i + 1)
            ELSE PutWritesFrom(
                   (rows \ same) \cup
                     {[thread_id |-> config.thread_id,
                       checkpoint_ns |-> config.checkpoint_ns,
                       checkpoint_id |-> config.checkpoint_id, task_id |-> task_id,
                       write_idx |-> write_idx, channel |-> w.channel,
                       value |-> w.value, seq |-> n + 1]},
                   n + 1, config, task_id, writes, i + 1)

\* the sort key of a row of table writes: its write_idx, or the position at
\* which it was written
SortKey(r, by) == IF by = "write_idx" THEN r.write_idx ELSE r.seq

\* rows as the list a query returns them: ascending key, rows of equal key in
\* the order they were written
RECURSIVE Ordered(_, _)
Ordered(rows, by) ==
    IF rows = {} THEN <<>>
    ELSE LET first == CHOOSE r \in rows :
                        \A q \in rows :
                            \/ SortKey(r, by) < SortKey(q, by)
                            \/ SortKey(r, by) = SortKey(q, by) /\ r.seq <= q.seq
         IN <<first>> \o Ordered(rows \ {first}, by)

PendingWrite(r) == [task_id |-> r.task_id, channel |-> r.channel, value |-> r.value]

AsPendingWrites(rowlist) == [i \in 1..Len(rowlist) |-> PendingWrite(rowlist[i])]

\* the pending writes get_tuple and list attach to a checkpoint row: the rows
\* of its thread, namespace and checkpoint id ORDER BY write_idx ASC
PendingWritesOf(row) ==
    AsPendingWrites(Ordered(
        {w \in RowsOf(ck_writes, row.thread_id, row.checkpoint_ns) :
             w.checkpoint_id = row.id}, "write_idx"))

\* get_tuple(config) with no checkpoint id: the row of the thread and namespace
\* with the greatest created_at, and its pending writes
LocalSqliteSaver_get_tuple_of(thread_id, checkpoint_ns) ==
    LET rows == RowsOf(ck_checkpoints, thread_id, checkpoint_ns)
    IN IF rows = {}
       THEN [present |-> FALSE, id |-> "c1", payload |-> "p1", pending_writes |-> <<>>]
       ELSE LET row == CHOOSE r \in rows : \A q \in rows : q.created_at <= r.created_at
            IN [present |-> TRUE, id |-> row.id, payload |-> row.payload,
                pending_writes |-> PendingWritesOf(row)]

\* get_tuple on the thread and namespace CkptSpec writes to
LocalSqliteSaver_get_tuple == LocalSqliteSaver_get_tuple_of("s1", "")

\* put(config, checkpoint, metadata, new_versions): INSERT OR REPLACE on
\* (thread, namespace, checkpoint id) with created_at = datetime.now();
\* successive calls read increasing times
LocalSqliteSaver_put(thread_id, checkpoint_ns, id, payload, metadata) ==
    /\ ck_now < MaxPuts
    /\ ck_now' = ck_now + 1
    /\ ck_checkpoints' =
         {r \in ck_checkpoints : ~( /\ r.thread_id = thread_id
                                    /\ r.checkpoint_ns = checkpoint_ns
                                    /\ r.id = id )} \cup
         {[thread_id |-> thread_id, checkpoint_ns |-> checkpoint_ns, id |-> id,
           payload |-> payload, metadata |-> metadata, created_at |-> ck_now + 1]}
    /\ ck_last' = [present |-> TRUE, id |-> id, payload |-> payload]
    /\ ck_fresh' = FALSE
    /\ UNCHANGED <<ck_writes, ck_seq, ck_skipped>>
    /\ UNCHANGED <<facadeVars, tpVars, concVars, usVars, auxVars>>

\* put_writes(config, writes, task_id) on a checkpoint of the thread
LocalSqliteSaver_put_writes(config, writes, task_id) ==
    /\ config.checkpoint_id \in
         {r.id : r \in RowsOf(ck_checkpoints, config.thread_id, config.checkpoint_ns)}
    /\ ck_seq + Len(writes) <= MaxWriteRows
    /\ LET res == PutWritesFrom(ck_writes, ck_seq, config, task_id, writes, 1)
       IN /\ ck_writes' = res.rows
          /\ ck_seq' = res.n
          /\ ck_skipped' = (ck_skipped \/ res.n - ck_seq < Len(writes))
    /\ ck_fresh' = FALSE
    /\ UNCHANGED <<ck_checkpoints, ck_now, ck_last>>
    /\ UNCHANGED <<facadeVars, tpVars, concVars, usVars, auxVars>>

\* LocalSqliteSaver(db_path) constructed again over the same file: _init_db
\* creates nothing that exists, the tables are as they were
LocalSqliteSaver_open ==
    /\ ck_checkpoints # {}
    /\ ~ck_fresh
    /\ ck_fresh' = TRUE
    /\ UNCHANGED <<ck_checkpoints, ck_writes, ck_now, ck_seq, ck_last, ck_skipped>>
    /\ UNCHANGED <<facadeVars, tpVars, concVars, usVars, auxVars>>

CkptInit ==
    /\ nodes = "WorkflowNodes"
    /\ use_sqlite_checkpointer = TRUE
    /\ scenario = NoScenario
    /\ InitCommon
    /\ TpIdle

\* one thread id and namespace
CkptNext ==
    \/ \E id \in CheckpointIds : \E payload \in Payloads :
           LocalSqliteSaver_put("s1", "", id, payload, NoMetadata)
    \/ \E id \in CheckpointIds : \E writes \in WriteLists : \E task_id \in TaskIds :
           LocalSqliteSaver_put_writes(Config("s1", "", id), writes, task_id)
    \/ LocalSqliteSaver_open

CkptSpec == CkptInit /\ [][CkptNext]_vars

----------------------------------------------------------------------------
(* Two caller threads on one suspended session (orchestrator.py) *)

\* the facade variables no concurrent-call step writes
concFrame == <<nodes, use_sqlite_checkpointer, scenario, stale, call, local_state,
               graph_status, steps, raise_cause, outcome, lastNode, lastOutcome,
               phaseBefore, approvedSinceGate, resumes, restarts, qaFails,
               qaFailsInRun, helpVisits>>

\* the state start_new_session leaves checkpointed when pm and architect
\* succeeded and the graph suspended after human_gate
GateState ==
    LET init == InitialState("Build a task app")
    IN RunNode("architect", RunNode("pm", init, "ok").state, "ok").state

\* get_session_status, the status test and get_state of approve_and_continue /
\* reject_and_iterate
CallEnters(t, kind, reject_to) ==
    /\ th[t].pc = "idle"
    /\ store.present
    /\ store' = RowAfterStatusRead(store, stale)
    /\ th' = [th EXCEPT ![t] =
                [@ EXCEPT !.pc = IF store'.status = "awaiting_approval"
                                 THEN "checked" ELSE "refused",
                          !.kind = kind,
                          !.reject_to = reject_to,
                          !.state = store.state]]
    /\ UNCHANGED <<qa_attempts, sqlite_ckpt, memory_ckpt, ckptHistory, metrics, okCalls>>
    /\ UNCHANGED <<concFrame, tpVars, ckVars, usVars, auxVars>>

MetricOf(kind) == IF kind = "approve" THEN "approvals" ELSE "rejections"

\* self._metrics[k] += 1, first half: the current value is read
MetricRead(t) ==
    /\ th[t].pc = "checked"
    /\ th' = [th EXCEPT ![t] = [@ EXCEPT !.pc = "counting",
                                         !.tmp = metrics[MetricOf(th[t].kind)]]]
    /\ UNCHANGED <<qa_attempts, store, sqlite_ckpt, memory_ckpt, ckptHistory, metrics, okCalls>>
    /\ UNCHANGED <<concFrame, tpVars, ckVars, usVars, auxVars>>

\* self._metrics[k] += 1, second half: the incremented value is stored
MetricWrite(t) ==
    /\ th[t].pc = "counting"
    /\ metrics' = [metrics EXCEPT ![MetricOf(th[t].kind)] = th[t].tmp + 1]
    /\ th' = [th EXCEPT ![t] = [@ EXCEPT !.pc = "counted"]]
    /\ UNCHANGED <<qa_attempts, store, sqlite_ckpt, memory_ckpt, ckptHistory, okCalls>>
    /\ UNCHANGED <<concFrame, tpVars, ckVars, usVars, auxVars>>

\* self._graph.update_state(thread_config, {...}, as_node="human_gate")
CallUpdatesState(t) ==
    /\ th[t].pc = "counted"
    /\ Put(update_state(get_tuple,
                        IF th[t].kind = "approve" THEN "APPROVE" ELSE "REJECT",
                        th[t].reject_to))
    /\ th' = [th EXCEPT ![t] = [@ EXCEPT !.pc = "updated"]]
    /\ UNCHANGED <<qa_attempts, store, metrics, okCalls>>
    /\ UNCHANGED <<concFrame, tpVars, ckVars, usVars, auxVars>>

\* self._graph.invoke(None, config): the run starts from the thread's latest
\* checkpoint
CallInvokes(t) ==
    /\ th[t].pc = "updated"
    /\ th' = [th EXCEPT ![t] = [@ EXCEPT !.pc = "invoking", !.loop = get_tuple]]
    /\ UNCHANGED <<qa_attempts, store, sqlite_ckpt, memory_ckpt, ckptHistory, metrics, okCalls>>
    /\ UNCHANGED <<concFrame, tpVars, ckVars, usVars, auxVars>>

\* one superstep of the run of thread t, on the values its own run holds
CallSteps(t) ==
    /\ th[t].pc = "invoking"
    /\ th[t].loop.next \in Nodes
    /\ LET node  == th[t].loop.next
           state == th[t].loop.values
       IN \E oc \in Outcomes(node, state) :
            LET r   == RunNode(node, state, oc)
                nxt == Successor(node, r.state)
                ck  == [present |-> TRUE, values |-> r.state, next |-> nxt]
            IN IF r.raised
               THEN /\ th' = [th EXCEPT ![t] = [@ EXCEPT !.pc = "raised"]]
                    /\ UNCHANGED <<qa_attempts, sqlite_ckpt, memory_ckpt, ckptHistory>>
               ELSE /\ Put(ck)
                    /\ th' = [th EXCEPT ![t] =
                                [@ EXCEPT !.loop = ck,
                                          !.pc = IF node \in InterruptAfter \/ nxt = "END"
                                                 THEN "returned" ELSE "invoking"]]
                    /\ qa_attempts' = IF node = "qa" /\ nodes = "DummyWorkflowNodes"
                                      THEN qa_attempts + 1 ELSE qa_attempts
    /\ UNCHANGED <<store, metrics, okCalls>>
    /\ UNCHANGED <<concFrame, tpVars, ckVars, usVars, auxVars>>

\* invoke returned: the result is saved and the call returns
CallReturns(t) ==
    /\ th[t].pc = "returned"
    /\ store' = save_session(th[t].loop.values)
    /\ okCalls' = okCalls + 1
    /\ th' = [th EXCEPT ![t] = [@ EXCEPT !.pc = "done"]]
    /\ UNCHANGED <<qa_attempts, sqlite_ckpt, memory_ckpt, ckptHistory, metrics>>
    /\ UNCHANGED <<concFrame, tpVars, ckVars, usVars, auxVars>>

\* invoke raised: the except branch saves the failed state and raises
\* OrchestratorError
CallRaises(t) ==
    /\ th[t].pc = "raised"
    /\ store' = save_session(error_state(th[t].kind, th[t].state))
    /\ th' = [th EXCEPT ![t] = [@ EXCEPT !.pc = "failed"]]
    /\ UNCHANGED <<qa_attempts, sqlite_ckpt, memory_ckpt, ckptHistory, metrics, okCalls>>
    /\ UNCHANGED <<concFrame, tpVars, ckVars, usVars, auxVars>>

\* a session suspended after human_gate, as start_new_session left it
ConcInit ==
    /\ nodes \in {"WorkflowNodes", "DummyWorkflowNodes"}
    /\ use_sqlite_checkpointer \in BOOLEAN
    /\ scenario \in IF nodes = "WorkflowNodes" THEN {NoScenario} ELSE Scenarios
    /\ store = save_session(GateState)
    /\ IF use_sqlite_checkpointer
       THEN /\ sqlite_ckpt = [present |-> TRUE, values |-> GateState, next |-> "human_gate"]
            /\ memory_ckpt = NoCheckpoint
       ELSE /\ memory_ckpt = [present |-> TRUE, values |-> GateState, next |-> "human_gate"]
            /\ sqlite_ckpt = NoCheckpoint
    /\ ckptHistory = {Metadata(GateState)}
    /\ qa_attempts = 0
    /\ stale = FALSE
    /\ metrics = [approvals |-> 0, rejections |-> 0]
    /\ call = "idle"
    /\ local_state = GateState
    /\ graph_status = "idle"
    /\ steps = 0
    /\ raise_cause = "none"
    /\ outcome = "returned"
    /\ lastNode = "human_gate"
    /\ lastOutcome = "none"
    /\ phaseBefore = "human_gate"
    /\ approvedSinceGate = FALSE
    /\ resumes = 0
    /\ restarts = 0
    /\ qaFails = 0
    /\ qaFailsInRun = 0
    /\ helpVisits = 0
    /\ TpIdle
    /\ CkIdle
    /\ ConcIdle
    /\ UsIdle
    /\ AuxIdle

ConcNext ==
    \E t \in Threads :
        \/ CallEnters(t, "approve", "None")
        \/ \E reject_to \in RejectTargets : CallEnters(t, "reject", reject_to)
        \/ MetricRead(t)
        \/ MetricWrite(t)
        \/ CallUpdatesState(t)
        \/ CallInvokes(t)
        \/ CallSteps(t)
        \/ CallReturns(t)
        \/ CallRaises(t)

ConcSpec == ConcInit /\ [][ConcNext]_vars

----------------------------------------------------------------------------
(* LocalSqliteSaver on several thread ids and namespaces *)

\* the `filter` argument of list: values required of some metadata keys
Filters ==
    {f \in SUBSET (MetadataKeys \X {"x", "y"}) :
        \A a \in f : \A b \in f : a[1] = b[1] => a = b}

\* the `before` argument of list: no config, or a config with a checkpoint id
Befores == {"none"} \cup CheckpointIds

\* checkpoint rows as SELECT ... ORDER BY created_at DESC returns them
RECURSIVE NewestFirst(_)
NewestFirst(rows) ==
    IF rows = {} THEN <<>>
    ELSE LET first == CHOOSE r \in rows : \A q \in rows : q.created_at <= r.created_at
         IN <<first>> \o NewestFirst(rows \ {first})

CheckpointTuple(row) ==
    [id |-> row.id, payload |-> row.payload, metadata |-> row.metadata,
     pending_writes |-> PendingWritesOf(row)]

\* variant: a row whose id equals before's id is not skipped
Skipped_above(row, filter, before) ==
    \/ before # "none" /\ IdRank(row.id) > IdRank(before)
    \/ \E kv \in filter : row.metadata[kv[1]] # kv[2]

\* the rows the loop of list passes over: checkpoint_id >= before_id, or a
\* filter key whose metadata value differs
Skipped(row, filter, before) ==
    \/ before # "none" /\ IdRank(row.id) >= IdRank(before)
    \/ \E kv \in filter : row.metadata[kv[1]] # kv[2]

\* list(config, filter=filter, before=before) with no checkpoint id in config
\* and no limit
LocalSqliteSaver_list(thread_id, checkpoint_ns, filter, before) ==
    LET rows == NewestFirst(RowsOf(ck_checkpoints, thread_id, checkpoint_ns))
        Yielded(row) == ~Skipped(row, filter, before)
        kept == SelectSeq(rows, Yielded)
    IN [i \in 1..Len(kept) |-> CheckpointTuple(kept[i])]

\* variant: only the rows of the default namespace are deleted
LocalSqliteSaver_delete_thread_default_ns(thread_id) ==
    /\ ck_checkpoints' = {r \in ck_checkpoints :
                            r.thread_id # thread_id \/ r.checkpoint_ns # ""}
    /\ ck_writes' = {w \in ck_writes : w.thread_id # thread_id \/ w.checkpoint_ns # ""}
    /\ ck_fresh' = FALSE
    /\ UNCHANGED <<ck_now, ck_seq, ck_last, ck_skipped>>
    /\ UNCHANGED <<facadeVars, tpVars, concVars, usVars, auxVars>>

\* delete_thread(thread_id): DELETE FROM checkpoints / writes WHERE thread_id = ?
LocalSqliteSaver_delete_thread(thread_id) ==
    /\ ck_checkpoints' = {r \in ck_checkpoints : r.thread_id # thread_id}
    /\ ck_writes' = {w \in ck_writes : w.thread_id # thread_id}
    /\ ck_fresh' = FALSE
    /\ UNCHANGED <<ck_now, ck_seq, ck_last, ck_skipped>>
    /\ UNCHANGED <<facadeVars, tpVars, concVars, usVars, auxVars>>

\* checkpoints with any metadata, no pending writes
ListNext ==
    \/ \E thread_id \in ThreadIds : \E checkpoint_ns \in Namespaces :
         \E id \in CheckpointIds : \E metadata \in Metadatas :
           LocalSqliteSaver_put(thread_id, checkpoint_ns, id, "p1", metadata)
    \/ \E thread_id \in ThreadIds : LocalSqliteSaver_delete_thread(thread_id)

ListSpec == CkptInit /\ [][ListNext]_vars

\* checkpoints and pending writes, one metadata value
ThreadsNext ==
    \/ \E thread_id \in ThreadIds : \E checkpoint_ns \in Namespaces :
         \E id \in CheckpointIds :
           LocalSqliteSaver_put(thread_id, checkpoint_ns, id, "p1", NoMetadata)
    \/ \E thread_id \in ThreadIds : \E checkpoint_ns \in Namespaces :
         \E id \in CheckpointIds : \E channel \in Channels :
           LocalSqliteSaver_put_writes(Config(thread_id, checkpoint_ns, id),
                                       <<[channel |-> channel, value |-> "v1"]>>, "t1")
    \/ \E thread_id \in ThreadIds : LocalSqliteSaver_delete_thread(thread_id)

ThreadsSpec == CkptInit /\ [][ThreadsNext]_vars

-----------------------------------------------------------------------------
(* The two routers as pure functions (RouteSpec) *)

\* the states the routers are called on: every decision and reject_phase a
\* caller can have written (unset, a recognised value, anything else), both
\* QA verdicts, and counters on both sides of the budget
RouteInputs ==
    {[EmptyValues EXCEPT !.decision = d, !.reject_phase = r, !.qa_passed = q,
                         !.iteration_count = i, !.max_iterations = m] :
        d \in {"None", "APPROVE", "REJECT", "MAYBE"},
        r \in {"None", "pm", "architect", "qa", "engineer"},
        q \in BOOLEAN,
        i \in 0..(ConfigMaxIterations + 1),
        m \in 0..ConfigMaxIterations}

notRt == <<facadeVars, tpVars, ckVars, concVars, usVars, imVars, smVars, mtVars, cxVars>>

RouteAfterHumanGate(state) ==
    /\ rt_in' = state
    /\ rt_out' = [gate |-> route_after_human_gate(state), qa |-> "none"]
    /\ UNCHANGED notRt

RouteAfterQa(state) ==
    /\ rt_in' = state
    /\ rt_out' = [gate |-> "none", qa |-> route_after_qa(state)]
    /\ UNCHANGED notRt

RouteInit ==
    /\ nodes = "WorkflowNodes"
    /\ use_sqlite_checkpointer = FALSE
    /\ scenario = NoScenario
    /\ InitCommon
    /\ TpIdle

RouteNext ==
    \/ \E state \in RouteInputs : RouteAfterHumanGate(state)
    \/ \E state \in RouteInputs : RouteAfterQa(state)

RouteSpec == RouteInit /\ [][RouteNext]_vars

-----------------------------------------------------------------------------
(* export_session and import_session (PortSpec) *)

MaxImports == 1

\* json.dumps(dict(state), default=str) as export_session writes the "state"
\* member: None becomes null, a path its string, the lists JSON arrays
json_dumps(state) ==
    [state EXCEPT
        !.decision        = IF @ = "None" THEN "null" ELSE @,
        !.reject_phase    = IF @ = "None" THEN "null" ELSE @,
        !.path_prd        = IF @ THEN "path" ELSE "null",
        !.path_tech_spec  = IF @ THEN "path" ELSE "null",
        !.path_bug_report = IF @ THEN "path" ELSE "null"]

\* json.loads of the "state" member followed by AgentState(**data["state"]),
\* which checks nothing
json_loads(doc) ==
    [doc EXCEPT
        !.decision        = IF @ = "null" THEN "None" ELSE @,
        !.reject_phase    = IF @ = "null" THEN "None" ELSE @,
        !.path_prd        = (@ # "null"),
        !.path_tech_spec  = (@ # "null"),
        !.path_bug_report = (@ # "null")]

\* the id of the session the facade started: its state carries it as session_id
ThisSession == "s1"

\* files written by hand: without a "state" member, with a state that lacks
\* user_mission (with and without a session_id), and a complete state without
\* a session_id
HandWritten ==
    {NoPayload,
     [has_state |-> TRUE, has_mission |-> FALSE, session_id |-> ThisSession,
      state |-> json_dumps(EmptyValues)],
     [has_state |-> TRUE, has_mission |-> FALSE, session_id |-> "None",
      state |-> json_dumps(EmptyValues)],
     [has_state |-> TRUE, has_mission |-> TRUE, session_id |-> "None",
      state |-> json_dumps(InitialState("Build a task app"))]}

\* the file export_session wrote, as import_session reads it
Exported ==
    [has_state |-> TRUE, has_mission |-> TRUE, session_id |-> ThisSession,
     state |-> export_file.state]

notIm == <<tpVars, ckVars, concVars, usVars, rtVars, smVars, mtVars, cxVars>>

\* Orchestrator.export_session: get_state and get_session read the row as it
\* is stored; session_info.status is the row's status
ExportSession ==
    /\ Idle
    /\ store.present
    /\ ~export_file.present
    /\ export_file' = [present |-> TRUE, status |-> store.status,
                       state |-> json_dumps(store.state), of |-> store.state]
    /\ UNCHANGED <<facadeVars, im_other, im_result, notIm>>

\* Orchestrator.import_session: the only test on the parsed file is
\* "state" in data; the row is saved under state.get("session_id", uuid4())
ImportSession(payload) ==
    /\ Idle
    /\ im_result.n < MaxImports
    /\ IF ~payload.has_state
       THEN /\ im_result' = [n |-> im_result.n + 1, outcome |-> "ValueError",
                             id |-> "none", payload |-> payload]
            /\ UNCHANGED <<store, stale, im_other>>
       ELSE LET state == json_loads(payload.state)
            IN IF payload.session_id = ThisSession
               THEN /\ store' = save_session(state)
                    /\ stale' = FALSE
                    /\ im_result' = [n |-> im_result.n + 1, outcome |-> "ok",
                                     id |-> ThisSession, payload |-> payload]
                    /\ UNCHANGED im_other
               ELSE /\ im_other' = save_session(state)
                    /\ im_result' = [n |-> im_result.n + 1, outcome |-> "ok",
                                     id |-> "uuid4", payload |-> payload]
                    /\ UNCHANGED <<store, stale>>
    /\ UNCHANGED <<nodes, use_sqlite_checkpointer, scenario, qa_attempts,
                   sqlite_ckpt, memory_ckpt, ckptHistory, metrics, call, local_state,
                   graph_status, steps, raise_cause, outcome, lastNode, lastOutcome,
                   phaseBefore, approvedSinceGate, resumes, restarts, qaFails,
                   qaFailsInRun, helpVisits>>
    /\ UNCHANGED <<export_file, notIm>>

PortNext ==
    \/ Next
    \/ ExportSession
    \/ \E payload \in HandWritten : ImportSession(payload)
    \/ export_file.present /\ ImportSession(Exported)

PortSpec == Init /\ [][PortNext]_vars

-----------------------------------------------------------------------------
(* The StateManager functions on dicts and list objects (ImmSpec) *)

MaxListLen == 2

\* list(x): a new list object with the items of the list at `addr`
NewList(heap, items) == [heap |-> Append(heap, items), addr |-> Len(heap) + 1]

\* variant: dict(state) alone, the lists of the copy are the lists of the input
deepcopy_shallow(heap, d) == [heap |-> heap, state |-> d]

\* copy.deepcopy(dict(state)): a new dict whose lists are new list objects
deepcopy(heap, d) ==
    LET n == Len(heap)
    IN [heap  |-> heap \o <<heap[d.errors], heap[d.architectural_feedback],
                            heap[d.prd_feedback], heap[d.execution_log]>>,
        state |-> [d EXCEPT !.errors = n + 1, !.architectural_feedback = n + 2,
                            !.prd_feedback = n + 3, !.execution_log = n + 4]]

\* the loop of update_state over one key of `updates`: a list value is
\* deep-copied, any other value is stored as it is
ApplyUpdate(hs, updates, key) ==
    IF key \notin DOMAIN updates THEN hs
    ELSE IF key \in ListKeys
         THEN LET c == NewList(hs.heap, hs.heap[updates[key]])
              IN [heap |-> c.heap, state |-> [hs.state EXCEPT ![key] = c.addr]]
         ELSE [heap |-> hs.heap, state |-> [hs.state EXCEPT ![key] = updates[key]]]

\* StateManager.update_state: deep copy, new timestamp, then the updates
StateManager_update_state(heap, state, updates) ==
    LET c  == deepcopy(heap, state)
        t  == [heap |-> c.heap, state |-> [c.state EXCEPT !.timestamp = @ + 1]]
        u1 == ApplyUpdate(t, updates, "current_phase")
        u2 == ApplyUpdate(u1, updates, "iteration_count")
        u3 == ApplyUpdate(u2, updates, "errors")
        u4 == ApplyUpdate(u3, updates, "architectural_feedback")
        u5 == ApplyUpdate(u4, updates, "prd_feedback")
        u6 == ApplyUpdate(u5, updates, "execution_log")
    IN [heap |-> u6.heap, raised |-> FALSE, state |-> u6.state]

SmRaises(heap, state) == [heap |-> heap, raised |-> TRUE, state |-> state]

StateManager_transition_phase(heap, state, to_phase, validate) ==
    IF validate /\ ~validate_transition(state.current_phase, to_phase)
    THEN SmRaises(heap, state)
    ELSE StateManager_update_state(heap, state, [current_phase |-> to_phase])

StateManager_add_feedback(heap, state, feedback, feedback_type) ==
    IF feedback_type = "architectural"
    THEN LET new_feedback == NewList(heap, Append(heap[state.architectural_feedback],
                                                  feedback))
         IN StateManager_update_state(new_feedback.heap, state,
                                      [architectural_feedback |-> new_feedback.addr])
    ELSE IF feedback_type = "prd"
    THEN LET new_feedback == NewList(heap, Append(heap[state.prd_feedback], feedback))
         IN StateManager_update_state(new_feedback.heap, state,
                                      [prd_feedback |-> new_feedback.addr])
    ELSE SmRaises(heap, state)

StateManager_increment_iteration(heap, state) ==
    StateManager_update_state(heap, state,
                              [iteration_count |-> state.iteration_count + 1])

\* log_execution with a result that has no artifacts; `error` is the result's
\* error, "None" when it has none
StateManager_log_execution(heap, state, agent, error) ==
    LET new_log == NewList(heap, Append(heap[state.execution_log], agent))
    IN IF error = "None"
       THEN StateManager_update_state(new_log.heap, state,
                                      [execution_log |-> new_log.addr])
       ELSE LET new_errors == NewList(new_log.heap,
                                      Append(new_log.heap[state.errors], error))
            IN StateManager_update_state(new_errors.heap, state,
                                         [execution_log |-> new_log.addr,
                                          errors |-> new_errors.addr])

notSm == <<facadeVars, tpVars, ckVars, concVars, usVars, rtVars, imVars, mtVars, cxVars>>

\* a call of one of the five functions on sm_in
Returns(fn, r) ==
    /\ sm_out.fn = "none"
    /\ sm_heap' = r.heap
    /\ sm_out' = [fn |-> fn, raised |-> r.raised, state |-> r.state, mutated |-> FALSE]
    /\ UNCHANGED <<sm_in, sm_in0, notSm>>

\* update_state with a scalar patch, and with a patch that holds a list of the
\* caller's
CallUpdate ==
    \/ \E p \in {"arch", "failed"} :
           Returns("update_state",
                   StateManager_update_state(sm_heap, sm_in, [current_phase |-> p]))
    \/ LET patch == NewList(sm_heap, <<"boom">>)
       IN Returns("update_state",
                  StateManager_update_state(patch.heap, sm_in, [errors |-> patch.addr]))

CallTransition ==
    \E to_phase \in {"arch", "qa", "bogus"} : \E validate \in BOOLEAN :
        Returns("transition_phase",
                StateManager_transition_phase(sm_heap, sm_in, to_phase, validate))

CallAddFeedback ==
    \E feedback_type \in {"architectural", "prd", "other"} :
        Returns("add_feedback",
                StateManager_add_feedback(sm_heap, sm_in, "redo", feedback_type))

CallIncrementIteration ==
    Returns("increment_iteration", StateManager_increment_iteration(sm_heap, sm_in))

CallLogExecution ==
    \E error \in {"None", "QA failed"} :
        Returns("log_execution",
                StateManager_log_execution(sm_heap, sm_in, "qa", error))

\* the caller appends to a list of the returned state
MutateReturned(key) ==
    /\ sm_out.fn # "none"
    /\ ~sm_out.raised
    /\ Len(sm_heap[sm_out.state[key]]) < MaxListLen
    /\ sm_heap' = [sm_heap EXCEPT ![sm_out.state[key]] = Append(@, "later")]
    /\ sm_out' = [sm_out EXCEPT !.mutated = TRUE]
    /\ UNCHANGED <<sm_in, sm_in0, notSm>>

\* the states the functions are called on: three phases, and each list empty
\* or holding an item
ImmInit ==
    /\ nodes = "WorkflowNodes"
    /\ use_sqlite_checkpointer = FALSE
    /\ scenario = NoScenario
    /\ CkIdle /\ ConcIdle /\ UsIdle /\ FacadeIdle /\ TpIdle /\ RtIdle /\ ImIdle /\ MtIdle
    /\ CxIdle
    /\ sm_heap \in [1..4 -> {<<>>, <<"old">>}]
    /\ \E phase \in {"pm", "human_gate", "qa"} :
           sm_in = [NoDict EXCEPT !.current_phase = phase]
    /\ sm_in0 = Deep(sm_heap, sm_in)
    /\ sm_out = NoReturn

ImmNext ==
    \/ CallUpdate
    \/ CallTransition
    \/ CallAddFeedback
    \/ CallIncrementIteration
    \/ CallLogExecution
    \/ \E key \in ListKeys : MutateReturned(key)

ImmSpec == ImmInit /\ [][ImmNext]_vars

-----------------------------------------------------------------------------
(* The metrics output over a store of many sessions (MetricsSpec) *)

MaxSessions == 101

\* the default of list_sessions' parameter limit
DefaultLimit == 100

\* the number of rows SELECT ... ORDER BY updated_at DESC LIMIT ? returns
list_sessions(rows, limit) == IF rows < limit THEN rows ELSE limit

\* Orchestrator._build_metrics: sessions = list_sessions() with the default
\* limit; the total is len(sessions) and every listed session adds one to the
\* counter of its status, so the by-status values add up to len(sessions)
_build_metrics(rows) ==
    LET sessions == list_sessions(rows, DefaultLimit)
    IN [built |-> TRUE, sessions_total |-> sessions, by_status_sum |-> sessions]

notMt == <<facadeVars, tpVars, ckVars, concVars, usVars, rtVars, imVars, smVars, cxVars>>

\* save_session under a new session id (start_new_session, import_session)
SaveNewSession ==
    /\ mt_rows < MaxSessions
    /\ mt_rows' = mt_rows + 1
    /\ UNCHANGED <<mt_out, notMt>>

\* delete_session of a stored session
DeleteStoredSession ==
    /\ mt_rows > 0
    /\ mt_rows' = mt_rows - 1
    /\ UNCHANGED <<mt_out, notMt>>

\* GET /metrics
BuildMetrics ==
    /\ mt_out' = _build_metrics(mt_rows)
    /\ UNCHANGED <<mt_rows, notMt>>

MetricsNext ==
    \/ SaveNewSession
    \/ DeleteStoredSession
    \/ BuildMetrics

MetricsSpec == RouteInit /\ [][MetricsNext]_vars

-----------------------------------------------------------------------------
(* The context step of the node handlers of two sessions (CtxSpec) *)

\* state["user_mission"] of each session
MissionOf(s) == IF s = "A" THEN "mission A" ELSE "mission B"

\* the phase each agent node passes to update_context
ContextPhases == {"pm", "arch", "eng", "qa"}

\* ContextManager.update_context: the manager's single _current_context is
\* replaced
update_context(phase, mission) == [phase_name |-> phase, mission |-> mission]

\* ContextManager.generate_claude_md: the content is generated from
\* _current_context as it is at that moment and written to work_dir/CLAUDE.md;
\* `node` is history: the phase of the handler that wrote the file
generate_claude_md(current, node) ==
    [written |-> TRUE, phase_name |-> current.phase_name, mission |-> current.mission,
     node |-> node]

notCx == <<facadeVars, tpVars, ckVars, concVars, usVars, rtVars, imVars, smVars, mtVars>>

\* the first statement of pm_node, architect_node, engineer_node and qa_node
NodeUpdatesContext(s, phase) ==
    /\ cx_pc[s].at = "idle"
    /\ cx_current' = update_context(phase, MissionOf(s))
    /\ cx_pc' = [cx_pc EXCEPT ![s] = [at |-> "updated", node |-> phase]]
    /\ UNCHANGED <<cx_files, notCx>>

\* their second statement; the agent runs afterwards
NodeGeneratesClaudeMd(s) ==
    /\ cx_pc[s].at = "updated"
    /\ cx_files' = [cx_files EXCEPT ![s] = generate_claude_md(cx_current, cx_pc[s].node)]
    /\ cx_pc' = [cx_pc EXCEPT ![s] = [at |-> "idle", node |-> "None"]]
    /\ UNCHANGED <<cx_current, notCx>>

CtxNext ==
    \/ \E s \in Sessions : \E phase \in ContextPhases : NodeUpdatesContext(s, phase)
    \/ \E s \in Sessions : NodeGeneratesClaudeMd(s)

CtxSpec == RouteInit /\ [][CtxNext]_vars

----------------------------------------------------------------------------
(* Properties *)

\* the values of the session's latest checkpoint
ckpt == get_tuple.values

\* C1: the graph suspends after every execution of human_gate; the engineer
\* node is dispatched only when approve_and_continue has supplied APPROVE since
\* human_gate last ran, with APPROVE as the decision in the state; a graph run
\* started by reject_and_iterate never gets past the gate.
C1_GateNeedsDecision ==
    /\ lastNode = "human_gate" => graph_status \in {"interrupted", "idle"}
    /\ lastNode = "engineer" => approvedSinceGate
    /\ (lastNode = "engineer" /\ call # "idle") => ckpt.decision = "APPROVE"
    /\ call = "reject" => lastNode \notin {"engineer", "qa", "human_help"}

\* C1 witness: after a rejection sent the session back and it suspended again,
\* an approval let the engineer node run
C1_Witness ==
    /\ nodes = "DummyWorkflowNodes"
    /\ call = "approve"
    /\ lastNode = "engineer"
    /\ metrics.rejections >= 1
    /\ metrics.approvals = 1

\* C2: iteration_count never exceeds max_iterations and a session is routed to
\* human_help at most once.
C2_IterationBound ==
    /\ ckpt.iteration_count <= ckpt.max_iterations
    /\ helpVisits <= 1

\* C3: no graph run is ended by the runtime's step limit, and a run sees at
\* most max_iterations QA failures.
C3_RepairLoopBounded ==
    /\ raise_cause # "recursion"
    /\ qaFailsInRun <= ckpt.max_iterations

\* C4: iteration_count equals the number of QA failures of the session so far.
C4_IterationCountsFailures ==
    ckpt.iteration_count = qaFails

\* C5: the state a node handler returns after its sub-agent's subprocess failed
\* has current_phase failed, and the handler did not raise.
C5_SubprocessFailureMarksFailed ==
    (call # "idle" /\ lastOutcome = "subprocess_failed") =>
        /\ graph_status # "raised"
        /\ ckpt.current_phase = "failed"

\* C6: once the checkpointed phase is failed it stays failed, no agent node is
\* handed a failed state, and the session is then stored with status FAILED.
C6_FailedIsTerminal ==
    [][/\ (get_tuple.present /\ ckpt.current_phase = "failed"
             /\ get_tuple'.present)
            => get_tuple'.values.current_phase = "failed"
       /\ (lastNode' # lastNode /\ phaseBefore' = "failed")
            => lastNode' \notin AgentNodes
       /\ (store' # store /\ get_tuple.present /\ ckpt.current_phase = "failed"
             /\ store'.status # "expired")
            => store'.status = "failed"]_vars

\* C7: no graph run is ended by an exception raised by a node handler.
C7_HandlersNeverRaise ==
    raise_cause # "node"

\* C8: transition_phase with validation, on a pair of phases: a pair of the
\* table succeeds and the returned phase is the target; any other pair raises
\* and the state keeps its phase.
C8_TransitionClosure ==
    (tp_out.called /\ tp_validate /\ tp_in \in Phases /\ tp_to \in Phases) =>
        /\ tp_out.before = tp_in
        /\ IF tp_to \in VALID_TRANSITIONS[tp_in]
           THEN ~tp_out.raised /\ tp_out.phase = tp_to
           ELSE tp_out.raised /\ tp_out.phase = tp_in

\* C8 witness: a transition out of a terminal phase was asked for and refused
C8_Witness ==
    /\ tp_out.called
    /\ tp_validate
    /\ tp_in = "complete"
    /\ tp_to = "pm"
    /\ tp_out.raised

\* C9: every change of the checkpointed current_phase, and every change the
\* facade's error path makes to the stored phase, is a pair of the table.
C9_OnlyTablePairs ==
    [][/\ (get_tuple.present /\ get_tuple'.present
             /\ get_tuple'.values.current_phase # ckpt.current_phase)
            => get_tuple'.values.current_phase \in VALID_TRANSITIONS[ckpt.current_phase]
       /\ (call # "idle" /\ graph_status = "raised" /\ store' # store
             /\ store'.state.current_phase # local_state.current_phase)
            => store'.state.current_phase
                 \in VALID_TRANSITIONS[local_state.current_phase]]_vars

Min(a, b) == IF a <= b THEN a ELSE b

\* what a session started and then approved once at the gate ends with when the
\* orchestrator that started it also resumes it
ResumedByOriginal ==
    IF nodes = "WorkflowNodes"
    THEN [phase |-> "failed", status |-> "failed", qa_passed |-> FALSE,
          iteration_count |-> 0]
    ELSE IF scenario.always_fail \/ scenario.qa_failures_before_pass >= ConfigMaxIterations
         THEN [phase |-> "human_help", status |-> "awaiting_approval",
               qa_passed |-> FALSE, iteration_count |-> ConfigMaxIterations]
         ELSE [phase |-> "complete", status |-> "completed", qa_passed |-> TRUE,
               iteration_count |-> scenario.qa_failures_before_pass]

StoredResult ==
    [phase |-> store.state.current_phase, status |-> store.status,
     qa_passed |-> store.state.qa_passed,
     iteration_count |-> store.state.iteration_count]

\* C10: with the checkpoints in the SQLite database, constructing a new
\* orchestrator leaves the stored session and its latest checkpoint as they
\* were, and a session approved once at the gate ends with the same phase,
\* status, qa_passed and iteration_count whether or not the orchestrator was
\* replaced in between.
C10_CrashResumeIdempotent ==
    /\ [][(restarts' # restarts) =>
            /\ store' = store
            /\ stale' = stale
            /\ use_sqlite_checkpointer => get_tuple' = get_tuple]_vars
    /\ [](( /\ use_sqlite_checkpointer
            /\ Idle
            /\ resumes = 1
            /\ approvedSinceGate
            /\ store.status # "expired") => StoredResult = ResumedByOriginal)

\* C10 witness: the session was started, the orchestrator replaced, and the new
\* orchestrator's approval ran the repair loop to completion
C10_Witness ==
    /\ use_sqlite_checkpointer
    /\ nodes = "DummyWorkflowNodes"
    /\ restarts = 1
    /\ metrics.approvals = 1
    /\ resumes = 1
    /\ Idle
    /\ store.status = "completed"
    /\ store.state.iteration_count = 1

\* the writes stored for a checkpoint, in the order they were written
WrittenOrder(checkpoint_id) ==
    AsPendingWrites(Ordered({w \in ck_writes : w.checkpoint_id = checkpoint_id}, "seq"))

\* C11: a LocalSqliteSaver opened over the database after any sequence of put /
\* put_writes calls returns from get_tuple the checkpoint of the last put, with
\* the payload it was put with and its pending writes in the order written.
C11_CheckpointRoundTrip ==
    (ck_fresh /\ ck_last.present) =>
        /\ LocalSqliteSaver_get_tuple.present
        /\ LocalSqliteSaver_get_tuple.id = ck_last.id
        /\ LocalSqliteSaver_get_tuple.payload = ck_last.payload
        /\ LocalSqliteSaver_get_tuple.pending_writes = WrittenOrder(ck_last.id)

\* C12: at no time are two graph invocations in progress for the session.
C12_OneInvocationPerSession ==
    Cardinality({t \in Threads : th[t].pc \in {"updated", "invoking"}}) <= 1

\* C15: once no call is in progress, approvals + rejections equals the number
\* of approve and reject calls that returned normally.
C15_MetricsConservation ==
    (\A t \in Threads : th[t].pc \in {"idle", "refused", "done", "failed"}) =>
        metrics.approvals + metrics.rejections = okCalls

\* the status the spec derives from a phase
DerivedStatus(phase) ==
    CASE phase = "complete" -> "completed"
      [] phase = "failed" -> "failed"
      [] phase \in {"human_gate", "human_help"} -> "awaiting_approval"
      [] OTHER -> "running"

C14_RefusalChangesNothing ==
    [][ResumeRefused =>
         /\ store' = store
         /\ stale' = stale
         /\ get_tuple' = get_tuple
         /\ metrics' = metrics]_vars

\* C16: a cleanup call removes the row only if it was EXPIRED before the call;
\* a stale row that was not is still there, EXPIRED, after the call.
C16_CleanupTwoStep ==
    [][CleanupExpiredSessions =>
         /\ ~store'.present => store.status = "expired"
         /\ (stale /\ store.status \notin {"completed", "expired"}) =>
                (store'.present /\ store'.status = "expired")]_vars

\* C17: after delete_session returned True the store has no row for the
\* session and the checkpointer has no checkpoint of its thread.
C17_DeleteRemovesAll ==
    outcome = "deleted" => (~store.present /\ ~get_tuple.present)

\* C18: the row saved when a run that escalated to human_help returns has
\* current_phase human_help, status AWAITING_APPROVAL, qa_passed false and
\* iteration_count equal to max_iterations.
C18_EscalationPersisted ==
    [][(InvokeReturns /\ lastNode = "human_help") =>
         /\ store'.state.current_phase = "human_help"
         /\ store'.status = "awaiting_approval"
         /\ ~store'.state.qa_passed
         /\ store'.state.iteration_count = store'.state.max_iterations]_vars

\* C19: once human_help has run for the session, no later graph step runs the
\* pm, architect, engineer or qa node.
C19_HumanHelpTerminal ==
    [][(GraphStep /\ helpVisits >= 1) => lastNode' \notin AgentNodes]_vars

\* C20: while a graph run is in progress for the session its stored status is
\* RUNNING.
C20_RunningWhileWorking ==
    Running => (store.present /\ store.status = "running")

\* C21: the row saved when start_new_session returns normally has status
\* AWAITING_APPROVAL with phase human_gate, or a terminal status; never RUNNING.
C21_StartReturnsAtGate ==
    [][(InvokeReturns /\ call = "start") =>
         \/ /\ store'.status = "awaiting_approval"
            /\ store'.state.current_phase = "human_gate"
         \/ store'.status \in {"completed", "failed"}]_vars

\* C21 witness: start_new_session has returned and the session waits at the gate
C21_Witness ==
    /\ Idle
    /\ outcome = "returned"
    /\ resumes = 0
    /\ store.present
    /\ store.status = "awaiting_approval"
    /\ store.state.current_phase = "human_gate"
    /\ get_tuple.present
    /\ lastNode = "human_gate"

C23_EagerErrorsSurface ==
    [][(GraphStep /\ call \in {"start", "approve", "reject"} /\ lastOutcome' = "raise")
          => graph_status' = "raised"]_vars

\* C24: the usage the file records for the current day is the sum of the
\* units recorded that day: no increment is lost.
C24_NoLostIncrement ==
    UsageToday = recorded

\* the step in which execution e's check_and_record_usage call ran
RecordingBy(e) == ex[e].pc = "loaded" /\ ex'[e].pc \in {"recorded", "raised"}

C26_MetadataNotAhead ==
    (Idle /\ store.present) => Metadata(store.state) \in ckptHistory

\* a step in which get_session_status ran, on its own or inside a refused call
StatusRead == GetSessionStatus \/ ResumeRefused

Stored(rows) == {[r EXCEPT !.seq = 0] : r \in rows}

\* C28: no step changes or removes a stored write whose index is not negative,
\* and at any time a put_writes call made twice in a row leaves table writes
\* with the content it has after the first of the two.
C28_PutWritesIdempotent ==
    /\ [][\A r \in ck_writes : r.write_idx >= 0 => r \in ck_writes']_vars
    /\ [](\A id \in CheckpointIds : \A writes \in WriteLists : \A task_id \in TaskIds :
            LET once  == PutWritesFrom(ck_writes, ck_seq, Config("s1", "", id),
                                       task_id, writes, 1)
                twice == PutWritesFrom(once.rows, once.n, Config("s1", "", id),
                                       task_id, writes, 1)
            IN Stored(twice.rows) = Stored(once.rows))

\* C28 witness: put_writes has discarded a write whose key was stored
C28_Witness ==
    /\ ck_skipped
    /\ \E r \in ck_writes : r.write_idx >= 0

\* C29: list on a thread id and namespace yields, each once and newest first
\* by creation, exactly the checkpoints stored for them whose id is below
\* before's id and whose metadata has the filter's value on every filter key;
\* with no filter and no before its first element is the checkpoint get_tuple
\* returns.
C29_ListContract ==
    \A thread_id \in ThreadIds : \A checkpoint_ns \in Namespaces :
      \A filter \in Filters : \A before \in Befores :
        LET L    == LocalSqliteSaver_list(thread_id, checkpoint_ns, filter, before)
            rows == {r \in ck_checkpoints :
                       /\ r.thread_id = thread_id
                       /\ r.checkpoint_ns = checkpoint_ns
                       /\ before # "none" => IdRank(r.id) < IdRank(before)
                       /\ \A kv \in filter : r.metadata[kv[1]] = kv[2]}
            created(id) == (CHOOSE r \in rows : r.id = id).created_at
        IN /\ {L[i].id : i \in 1..Len(L)} = {r.id : r \in rows}
           /\ Len(L) = Cardinality(rows)
           /\ \A i \in 1..Len(L) : \A j \in 1..Len(L) :
                 i < j => created(L[i].id) > created(L[j].id)
           /\ \A i \in 1..Len(L) : \E r \in rows :
                 r.id = L[i].id /\ r.payload = L[i].payload /\ r.metadata = L[i].metadata
           /\ (filter = {} /\ before = "none" /\ Len(L) > 0) =>
                 /\ LocalSqliteSaver_get_tuple_of(thread_id, checkpoint_ns).present
                 /\ LocalSqliteSaver_get_tuple_of(thread_id, checkpoint_ns).id = L[1].id

\* C29 witness: a thread holds two checkpoints, the older one with the greater
\* id and with different metadata
C29_Witness ==
    \E r \in ck_checkpoints : \E q \in ck_checkpoints :
        /\ r.thread_id = q.thread_id
        /\ r.checkpoint_ns = q.checkpoint_ns
        /\ r.created_at < q.created_at
        /\ IdRank(r.id) > IdRank(q.id)
        /\ r.metadata # q.metadata

\* C30: delete_thread(t) leaves no checkpoint and no pending write of thread t,
\* in any namespace, and leaves the rows of every other thread as they were.
C30_DeleteThreadFrame ==
    [][\A thread_id \in ThreadIds : LocalSqliteSaver_delete_thread(thread_id) =>
         /\ \A r \in ck_checkpoints' : r.thread_id # thread_id
         /\ \A w \in ck_writes' : w.thread_id # thread_id
         /\ \A r \in ck_checkpoints : r.thread_id # thread_id => r \in ck_checkpoints'
         /\ \A w \in ck_writes : w.thread_id # thread_id => w \in ck_writes'
         /\ ck_checkpoints' \subseteq ck_checkpoints
         /\ ck_writes' \subseteq ck_writes]_vars

\* C30 witness: a thread's checkpoint and write are gone, another thread's
\* checkpoint is still stored
C30_Witness ==
    /\ ck_now = MaxPuts
    /\ ck_seq >= 1
    /\ ck_writes = {}
    /\ Cardinality(ck_checkpoints) = 1

\* C31: after the human gate the router returns engineer on APPROVE; on REJECT
\* it returns pm for the target pm, architect for the target architect and
\* architect for every other target, missing or unrecognised; with the
\* decision unset it returns human_gate.
C31_RouteAfterHumanGate ==
    rt_out.gate # "none" =>
        /\ rt_in.decision = "APPROVE" => rt_out.gate = "engineer"
        /\ rt_in.decision = "REJECT" /\ rt_in.reject_phase = "pm" => rt_out.gate = "pm"
        /\ rt_in.decision = "REJECT" /\ rt_in.reject_phase = "architect"
               => rt_out.gate = "architect"
        /\ rt_in.decision = "REJECT" /\ rt_in.reject_phase \notin {"pm", "architect"}
               => rt_out.gate = "architect"
        /\ rt_in.decision = "None" => rt_out.gate = "human_gate"

C31_Witness ==
    /\ rt_in.decision = "REJECT"
    /\ rt_in.reject_phase = "qa"
    /\ rt_out.gate = "architect"

\* C32: after QA the verdict is evaluated before the budget: the router
\* returns end whenever qa_passed holds, whatever the counters; otherwise
\* engineer while iteration_count < max_iterations and human_help once
\* iteration_count >= max_iterations.
C32_RouteAfterQa ==
    rt_out.qa # "none" =>
        /\ rt_in.qa_passed => rt_out.qa = "end"
        /\ ~rt_in.qa_passed /\ rt_in.iteration_count < rt_in.max_iterations
               => rt_out.qa = "engineer"
        /\ ~rt_in.qa_passed /\ rt_in.iteration_count >= rt_in.max_iterations
               => rt_out.qa = "human_help"

C32_Witness ==
    /\ rt_in.qa_passed
    /\ rt_in.iteration_count >= rt_in.max_iterations
    /\ rt_out.qa = "end"

\* C33: artifact paths are monotonic: once a slot of the session's state (PRD,
\* tech spec, bug report) holds a path, no later step of a node, of approve, of
\* reject or of the error handling leaves the session with that slot empty.
C33_PathsMonotonic ==
    [][store.present /\ store'.present =>
          /\ store.state.path_prd => store'.state.path_prd
          /\ store.state.path_tech_spec => store'.state.path_tech_spec
          /\ store.state.path_bug_report => store'.state.path_bug_report]_vars

IsPrefix(s, t) == Len(s) <= Len(t) /\ SubSeq(t, 1, Len(s)) = s

\* C34: the execution log is append-only: across every step of a session the
\* execution log the session had is a prefix of the one it has afterwards, so
\* that records are appended in the order the nodes completed and none is
\* rewritten or dropped.
C34_LogAppendOnly ==
    [][store.present /\ store'.present =>
          IsPrefix(store.state.execution_log, store'.state.execution_log)]_vars

\* a step of import_session
ImportStep == im_result'.n # im_result.n

\* C35: import_session validates the presence of state.user_mission: a payload
\* whose state has no user_mission is rejected as invalid input and changes
\* nothing in the store; any other payload with a state is persisted under the
\* state's own session id when it has one, else under a newly generated id.
C35_ImportValidatesMission ==
    [][ImportStep =>
          /\ ~im_result'.payload.has_mission =>
                 /\ im_result'.outcome = "ValueError"
                 /\ store' = store
                 /\ im_other' = im_other
          /\ im_result'.payload.has_mission =>
                 /\ im_result'.outcome = "ok"
                 /\ IF im_result'.payload.session_id = ThisSession
                    THEN im_result'.id = ThisSession /\ store'.present
                    ELSE im_result'.id = "uuid4" /\ im_other'.present]_vars

\* C36: an empty mission is rejected with no state change: no session row and
\* no checkpoint is ever created for a session whose mission is empty.
C36_EmptyMissionRejected ==
    /\ store.present => store.state.user_mission # ""
    /\ get_tuple.present => get_tuple.values.user_mission # ""

\* C37: export is round-trippable via import: importing the file export_session
\* wrote yields a session with the same session id, whose full state, errors
\* included, equals the exported state and whose status equals the status
\* recorded in the export.
C37_ExportImportRoundTrip ==
    [][ImportStep /\ export_file.present /\ im_result'.payload = Exported =>
          /\ im_result'.id = ThisSession
          /\ store'.present
          /\ store'.state = export_file.of
          /\ store'.status = export_file.status]_vars

\* C38: the public state functions (update, transition, add feedback, increment
\* iteration, log execution) never change their input: the input state, its
\* lists included, is after the call what it was before it, whether the call
\* returned or raised, and changes made later to the lists of the returned
\* state do not reach the input.
C38_InputImmutable ==
    /\ Deep(sm_heap, sm_in) = sm_in0
    /\ sm_out.fn # "none" /\ ~sm_out.raised =>
           \A key \in ListKeys : sm_out.state[key] # sm_in[key]

C38_Witness ==
    /\ sm_out.fn = "add_feedback"
    /\ sm_out.mutated
    /\ sm_heap[sm_out.state.architectural_feedback] = <<"redo", "later">>
    /\ sm_heap[sm_in.architectural_feedback] = <<>>
    /\ sm_heap[sm_in.errors] = <<"old">>

\* C39: the metrics report the total number of sessions: for any number of
\* sessions in the store, orchestrator_sessions_total as built equals the
\* number of rows stored at that moment and equals the sum of the
\* orchestrator_sessions_by_status values.
C39_MetricsTotal ==
    [][mt_out' # mt_out =>
          /\ mt_out'.sessions_total = mt_rows
          /\ mt_out'.sessions_total = mt_out'.by_status_sum]_vars

\* C40: sessions are isolated in the context step: when node handlers of two
\* sessions run concurrently through the same container, the CLAUDE.md written
\* into a session's working directory holds that session's own mission and the
\* phase of the node that wrote it, never those of the other session.
C40_ContextIsolated ==
    \A s \in Sessions :
        cx_files[s].written =>
            /\ cx_files[s].mission = MissionOf(s)
            /\ cx_files[s].phase_name = cx_files[s].node

====
